---- MODULE Spec2Model ----
(***************************************************************************)
(* SOME/IP transport protocol (TP): segmenter, reassembler and manager of  *)
(* the opensomeip stack, modelled from src/src/tp and src/include/tp.      *)
(* Byte vectors are sequences of 0..255; position p of a C++ vector is     *)
(* index p + 1 of the sequence.                                            *)
(***************************************************************************)
EXTENDS Integers, Sequences, FiniteSets, TLC

VARIABLES
    config,               \* TpConfig of the object under verification
    reassembly_buffers,   \* TpReassembler::reassembly_buffers_ (key -> buffer)
    now,                  \* std::chrono::steady_clock, in ticks
    call,                 \* the last call made on the object and what it returned
    message,              \* the Message handed to the segmenter
    segments,             \* the std::vector<TpSegment> the segmenter filled
    next_sequence_number, \* TpSegmenter::next_sequence_number_
    receiver,             \* which object receives: "reassembler" or "manager"
    fed,                  \* indices of `segments` handed to the receiver, in order
    outputs,              \* what the receiver returned for each of them
    statistics,           \* TpManager::statistics_
    active_transfers,     \* TpManager::active_transfers_ (transfer id -> TpTransfer)
    next_transfer_id,     \* TpManager::next_transfer_id_
    completion_callback,  \* whether TpManager::completion_callback_ holds a function
    callbacks,            \* times the completion callback ran with TIMEOUT, per id
    wire,                 \* segments handed out by get_next_segment
    buffers_mutex,        \* TpReassembler::buffers_mutex_: its holder, 0 when free
    threads,              \* per thread: its place in process_segment and its locals
    race_start,           \* the reassembler's map when the threads were started
    wire_data,            \* the byte vector a codec wrote or is given to decode
    decoded,              \* the object deserialize() was called on
    buffer_,              \* Deserializer::buffer_
    position_,            \* Deserializer::position_
    sessions_,            \* SessionManager::sessions_ (session id -> Session)
    sessions_mutex_,      \* SessionManager::sessions_mutex_: its holder, 0 when free
    next_session_id_,     \* SessionManager::next_session_id_
    callers,              \* per thread: its place in the SessionManager and its locals
    available_services_,  \* SdClientImpl::available_services_
    pending_finds_,       \* SdClientImpl::pending_finds_ (request id -> service id)
    next_request_id_,     \* SdClientImpl::next_request_id_
    latest_offer,         \* (service, instance) -> ttl of the last OFFER_SERVICE entry processed
    segmenting,           \* a running segment_message call: its position and its locals
    rpc_running_,         \* RpcClientImpl::running_
    pending_calls_,       \* RpcClientImpl::pending_calls_ (handle -> PendingCall)
    next_call_handle_,    \* RpcClientImpl::next_call_handle_
    callback_runs,        \* handle -> session id of the call and times its callback ran
    rpc_threads,          \* per application thread: its place in the RpcClient and its locals
    sessions_size,        \* sessions_.size() of an RpcClient that erases no session: ids 1..size
    event_publisher,      \* the members of an EventPublisherImpl
    ev_threads,           \* timer thread and application threads of the EventPublisher
    tcp_written,          \* the messages written to a TCP connection, in order
    tcp_stream,           \* the bytes written and not yet returned by recv()
    message_queue_        \* TcpTransport::message_queue_

reVars == <<config, reassembly_buffers, now, call>>
txVars == <<message, segments, next_sequence_number, receiver, fed, outputs>>
mgrVars == <<active_transfers, next_transfer_id, completion_callback, callbacks, wire>>
raceVars == <<buffers_mutex, threads, race_start>>
codecVars == <<wire_data, decoded>>
serVars == <<buffer_, position_>>
sessVars == <<sessions_, sessions_mutex_, next_session_id_, callers>>
sdcVars == <<available_services_, pending_finds_, next_request_id_, latest_offer>>
rpcVars == <<rpc_running_, pending_calls_, next_call_handle_, callback_runs, rpc_threads,
             sessions_size>>
evVars == <<event_publisher, ev_threads>>
tcpVars == <<tcp_written, tcp_stream, message_queue_>>
appVars == <<sdcVars, segmenting, rpcVars, evVars, tcpVars>>
vars == <<config, reassembly_buffers, now, call, message, segments,
          next_sequence_number, receiver, fed, outputs, statistics,
          active_transfers, next_transfer_id, completion_callback, callbacks, wire,
          buffers_mutex, threads, race_start, wire_data, decoded,
          buffer_, position_, sessions_, sessions_mutex_, next_session_id_, callers,
          available_services_, pending_finds_, next_request_id_, latest_offer,
          segmenting, rpc_running_, pending_calls_, next_call_handle_, callback_runs,
          rpc_threads, sessions_size, event_publisher, ev_threads,
          tcp_written, tcp_stream, message_queue_>>

----------------------------------------------------------------------------
(* Bounds of the model                                                     *)

MaxMessageSize == 18          \* config.max_message_size used here
ReassemblyTimeout == 1        \* config.reassembly_timeout used here, in ms
MaxConcurrentTransfers == 1   \* config.max_concurrent_transfers used here
TicksPerMs == 2               \* clock ticks per millisecond
MaxTime == 4                  \* the clock stops advancing here
MaxSeq == 1                   \* sequence numbers 0..MaxSeq appear on the wire
MaxPayloadLen == 37           \* longest payload handed to the segmenter
MaxTransfers == 2             \* transfer ids handed out by one TpManager
MaxReceived == 2              \* segments one TpManager receives
MaxCodecPayload == 2          \* longest payload of a Message given to the codec
MaxSdEntries == 2             \* entries added to one SdMessage
MaxSdOptions == 1             \* options added to one SdMessage
MaxBufferLen == 6             \* longest buffer handed to a Deserializer
MaxArrayLength == 2           \* largest length passed to deserialize_array
MaxSessions == 3              \* sessions alive at one time
MaxSessionCounter == 4        \* next_session_id_ after its wrap stops create_session here
MaxFinds == 2                 \* find_service calls made on one SdClient
MaxCalls == 2                 \* call_method_async calls that reach pending_calls_
MaxPublishes == 2             \* publish_event calls that take a session id
MaxTcpMessages == 2           \* messages written to the TCP connection

----------------------------------------------------------------------------
(* Fixed-width arithmetic and byte vectors                                 *)

U8(x) == x % 256
U16(x) == x % 65536

Min(a, b) == IF a <= b THEN a ELSE b

Zeros(n) == [i \in 1..n |-> 0]

\* std::copy(src.begin() + from, src.end(), dst.begin() + at)
CopyInto(dst, src, from, at) ==
    [i \in 1..Len(dst) |->
        IF i - 1 >= at /\ i - 1 < at + (Len(src) - from)
        THEN src[i - at + from]
        ELSE dst[i]]

\* the map without key k (unordered_map::erase(key))
Erase(m, k) == [x \in DOMAIN m \ {k} |-> m[x]]

\* the map with key k bound to v (emplace / operator[])
Put(m, k, v) == [x \in DOMAIN m \cup {k} |-> IF x = k THEN v ELSE m[x]]

EmptyMap == [x \in {} |-> 0]

----------------------------------------------------------------------------
(* tp_types.h                                                              *)

FIRST_SEGMENT == "FIRST_SEGMENT"
CONSECUTIVE_SEGMENT == "CONSECUTIVE_SEGMENT"
LAST_SEGMENT == "LAST_SEGMENT"
SINGLE_MESSAGE == "SINGLE_MESSAGE"
TpMessageType == {FIRST_SEGMENT, CONSECUTIVE_SEGMENT, LAST_SEGMENT, SINGLE_MESSAGE}

HeaderSize == 16

TpSegment(mlen, off, slen, sn, ty, bytes) ==
    [message_length |-> mlen, segment_offset |-> off, segment_length |-> slen,
     sequence_number |-> sn, message_type |-> ty, payload |-> bytes]

\* TpReassemblyBuffer(msg_id, length): received_data is value-initialised,
\* received_segments starts empty, start_time is the construction time
TpReassemblyBuffer(msg_id, length, t) ==
    [message_id |-> msg_id, total_length |-> length,
     received_data |-> Zeros(length), received_segments |-> <<>>,
     start_time |-> t, last_sequence_number |-> 0, complete |-> FALSE]

----------------------------------------------------------------------------
(* TpReassemblyBuffer methods (tp_reassembler.cpp)                         *)

is_segment_received(b, offset, length) ==
    \A i \in 0..(length - 1) :
        /\ offset + i < Len(b.received_segments)
        /\ b.received_segments[offset + i + 1]

mark_segment_received(b, offset, length) ==
    LET old == b.received_segments
        rs == IF Len(old) < b.total_length
              THEN [i \in 1..b.total_length |-> IF i <= Len(old) THEN old[i] ELSE FALSE]
              ELSE old
    IN [b EXCEPT !.received_segments =
            [i \in 1..Len(rs) |-> rs[i] \/ (i - 1 >= offset /\ i - 1 < offset + length)]]

is_complete(b) ==
    \/ b.complete
    \/ \A i \in 1..Len(b.received_segments) : b.received_segments[i]

get_complete_message(b) ==
    IF ~is_complete(b) THEN <<>> ELSE b.received_data

----------------------------------------------------------------------------
(* TpReassembler (tp_reassembler.cpp)                                      *)

\* validate_segment without the test of message_length against the limit
validate_segment_any_length(cfg, segment) ==
    /\ segment.segment_length = Len(segment.payload)
    /\ segment.segment_offset + segment.segment_length <= segment.message_length

validate_segment(cfg, segment) ==
    /\ segment.segment_length = Len(segment.payload)
    /\ segment.message_length <= cfg.max_message_size
    /\ segment.segment_offset + segment.segment_length <= segment.message_length

\* the map after the call, and whether a buffer was found or created
find_or_create_buffer(bufs, segment, t) ==
    IF segment.sequence_number \in DOMAIN bufs
    THEN [found |-> TRUE, buffers |-> bufs]
    ELSE IF segment.message_type \in {FIRST_SEGMENT, SINGLE_MESSAGE}
         THEN [found |-> TRUE,
               buffers |-> Put(bufs, segment.sequence_number,
                               TpReassemblyBuffer(segment.sequence_number,
                                                  segment.message_length, t))]
         ELSE [found |-> FALSE, buffers |-> bufs]

\* add_segment_to_buffer copying a FIRST_SEGMENT with its SOME/IP header
add_segment_to_buffer_keeps_header(b, segment) ==
    IF is_segment_received(b, segment.segment_offset, segment.segment_length)
    THEN [ok |-> TRUE, buffer |-> b]
    ELSE IF segment.segment_offset + segment.segment_length > b.total_length
    THEN [ok |-> FALSE, buffer |-> b]
    ELSE LET strip == segment.message_type \in {FIRST_SEGMENT, SINGLE_MESSAGE}
             bytes_received ==
                 IF strip
                 THEN (IF Len(segment.payload) > HeaderSize
                       THEN Len(segment.payload) - HeaderSize ELSE 0)
                 ELSE Len(segment.payload)
             at == IF segment.message_type = SINGLE_MESSAGE
                   THEN 0 ELSE segment.segment_offset
             data == IF strip
                     THEN (IF Len(segment.payload) > HeaderSize
                           THEN CopyInto(b.received_data, segment.payload, 0, at)
                           ELSE b.received_data)
                     ELSE CopyInto(b.received_data, segment.payload, 0, at)
             marked == mark_segment_received([b EXCEPT !.received_data = data],
                                             segment.segment_offset, U16(bytes_received))
         IN [ok |-> TRUE,
             buffer |-> [marked EXCEPT !.last_sequence_number = segment.sequence_number]]

\* the return value and the buffer after the call
add_segment_to_buffer(b, segment) ==
    IF is_segment_received(b, segment.segment_offset, segment.segment_length)
    THEN [ok |-> TRUE, buffer |-> b]
    ELSE IF segment.segment_offset + segment.segment_length > b.total_length
    THEN [ok |-> FALSE, buffer |-> b]
    ELSE LET strip == segment.message_type \in {FIRST_SEGMENT, SINGLE_MESSAGE}
             bytes_received ==
                 IF strip
                 THEN (IF Len(segment.payload) > HeaderSize
                       THEN Len(segment.payload) - HeaderSize ELSE 0)
                 ELSE Len(segment.payload)
             at == IF segment.message_type = SINGLE_MESSAGE
                   THEN 0 ELSE segment.segment_offset
             data == IF strip
                     THEN (IF Len(segment.payload) > HeaderSize
                           THEN CopyInto(b.received_data, segment.payload, HeaderSize, at)
                           ELSE b.received_data)
                     ELSE CopyInto(b.received_data, segment.payload, 0, at)
             marked == mark_segment_received([b EXCEPT !.received_data = data],
                                             segment.segment_offset, U16(bytes_received))
         IN [ok |-> TRUE,
             buffer |-> [marked EXCEPT !.last_sequence_number = segment.sequence_number]]

\* ret: the return value; complete/message: whether complete_message was
\* assigned and to what; buffers: the map after the call
process_segment(cfg, bufs, segment, t) ==
    IF ~validate_segment(cfg, segment)
    THEN [ret |-> FALSE, complete |-> FALSE, message |-> <<>>, buffers |-> bufs]
    ELSE LET fc == find_or_create_buffer(bufs, segment, t)
         IN IF ~fc.found
            THEN [ret |-> FALSE, complete |-> FALSE, message |-> <<>>, buffers |-> bufs]
            ELSE LET key == segment.sequence_number
                     a == add_segment_to_buffer(fc.buffers[key], segment)
                     bufs2 == [fc.buffers EXCEPT ![key] = a.buffer]
                 IN IF a.ok /\ is_complete(a.buffer)
                    THEN [ret |-> TRUE, complete |-> TRUE,
                          message |-> get_complete_message([a.buffer EXCEPT !.complete = TRUE]),
                          buffers |-> Erase(bufs2, a.buffer.message_id)]
                    ELSE [ret |-> TRUE, complete |-> FALSE, message |-> <<>>,
                          buffers |-> bufs2]

is_reassembling(bufs, message_id) == message_id \in DOMAIN bufs

\* cancel_reassembly that forgets to erase
cancel_reassembly_keeps(bufs, message_id) == bufs

cancel_reassembly(bufs, message_id) == Erase(bufs, message_id)

get_active_reassemblies(bufs) == Cardinality(DOMAIN bufs)

\* duration_cast<milliseconds>(t1 - t0): truncation to whole milliseconds
ElapsedMs(t0, t1) == (t1 - t0) \div TicksPerMs

\* cleanup_timed_out_buffers comparing with >= instead of >
cleanup_timed_out_buffers_ge(cfg, bufs, t) ==
    LET keep == {k \in DOMAIN bufs :
                    ~(ElapsedMs(bufs[k].start_time, t) >= cfg.reassembly_timeout)}
    IN [k \in keep |-> bufs[k]]

cleanup_timed_out_buffers(cfg, bufs, t) ==
    LET keep == {k \in DOMAIN bufs :
                    ~(ElapsedMs(bufs[k].start_time, t) > cfg.reassembly_timeout)}
    IN [k \in keep |-> bufs[k]]

cleanup_completed_buffers(bufs) == bufs

\* process_timeouts that empties the map as soon as one buffer timed out
process_timeouts_clears(cfg, bufs, t) ==
    IF cleanup_timed_out_buffers(cfg, bufs, t) = bufs THEN bufs ELSE EmptyMap

process_timeouts(cfg, bufs, t) ==
    cleanup_completed_buffers(cleanup_timed_out_buffers(cfg, bufs, t))

----------------------------------------------------------------------------
(* Message (message.cpp): the header fields and the payload                *)

BE16(x) == <<(x \div 256) % 256, x % 256>>
BE32(x) == <<(x \div 16777216) % 256, (x \div 65536) % 256, (x \div 256) % 256, x % 256>>

\* Message(message_id, request_id, message_type, return_code) followed by
\* set_payload: versions are 1 and update_length() sets length
Message(service_id, method_id, client_id, session_id, message_type, return_code, payload) ==
    [service_id |-> service_id, method_id |-> method_id,
     length |-> 8 + Len(payload),
     client_id |-> client_id, session_id |-> session_id,
     protocol_version |-> 1, interface_version |-> 1,
     message_type |-> message_type, return_code |-> return_code,
     payload |-> payload]

\* serialize writing the length field in little-endian order
serialize_little_endian_length(m) ==
    BE16(m.service_id) \o BE16(m.method_id)
    \o <<m.length % 256, (m.length \div 256) % 256,
         (m.length \div 65536) % 256, (m.length \div 16777216) % 256>>
    \o BE16(m.client_id) \o BE16(m.session_id)
    \o <<m.protocol_version, m.interface_version, m.message_type, m.return_code>>
    \o m.payload

\* htonl(message_id_.to_uint32()) is service_id then method_id, big-endian;
\* likewise for the request id
serialize(m) ==
    BE16(m.service_id) \o BE16(m.method_id) \o BE32(m.length)
    \o BE16(m.client_id) \o BE16(m.session_id)
    \o <<m.protocol_version, m.interface_version, m.message_type, m.return_code>>
    \o m.payload

\* void set_length(uint32_t length)
set_length(m, length) == [m EXCEPT !.length = length]

\* void set_interface_version(uint8_t version)
set_interface_version(m, version) == [m EXCEPT !.interface_version = version]

SOMEIP_PROTOCOL_VERSION == 1
SOMEIP_INTERFACE_VERSION == 1
MIN_MESSAGE_SIZE == 16
MAX_TCP_PAYLOAD_SIZE == 65535

\* the values of enum class MessageType and of enum class ReturnCode
MessageTypes == {0, 1, 2, 64, 128, 129, 192, 193, 32, 33, 34}
ReturnCodes == 0..15

\* the length test is made on uint32_t; lengths stay below 2^31 here
has_valid_header(m) ==
    /\ m.protocol_version = SOMEIP_PROTOCOL_VERSION
    /\ m.interface_version = SOMEIP_INTERFACE_VERSION
    /\ 8 + m.length = HeaderSize + Len(m.payload)
    /\ m.message_type \in MessageTypes
    /\ m.return_code \in ReturnCodes

has_valid_payload(m) == Len(m.payload) <= MAX_TCP_PAYLOAD_SIZE

is_valid(m) == has_valid_header(m) /\ has_valid_payload(m)

\* ntohl of the four bytes at position at, and its 16-bit halves
FromBE16(bytes, at) == bytes[at + 1] * 256 + bytes[at + 2]
FromBE32(bytes, at) == FromBE16(bytes, at) * 65536 + FromBE16(bytes, at + 2)

\* deserialize that takes the frame as it comes: no test of the size, of
\* the length field or of the result
deserialize_trusting(m, bytes) ==
    LET at(p) == IF p < Len(bytes) THEN bytes[p + 1] ELSE 0
        header == [m EXCEPT !.service_id = at(0) * 256 + at(1),
                            !.method_id = at(2) * 256 + at(3),
                            !.length = ((at(4) * 256 + at(5)) * 256 + at(6)) * 256 + at(7),
                            !.client_id = at(8) * 256 + at(9),
                            !.session_id = at(10) * 256 + at(11),
                            !.protocol_version = at(12),
                            !.interface_version = at(13),
                            !.message_type = at(14),
                            !.return_code = at(15)]
    IN [ok |-> TRUE,
        message |-> [header EXCEPT !.payload =
                        IF Len(bytes) > HeaderSize
                        THEN SubSeq(bytes, HeaderSize + 1, Len(bytes)) ELSE <<>>]]

\* bool Message::deserialize(data) on the object m: the return value and
\* the object afterwards.  With 16 bytes or more at hand none of the
\* per-field size tests fails; the header fields are assigned before the
\* length is examined.
deserialize(m, bytes) ==
    IF Len(bytes) < MIN_MESSAGE_SIZE
    THEN [ok |-> FALSE, message |-> m]
    ELSE LET header == [m EXCEPT !.service_id = FromBE16(bytes, 0),
                                 !.method_id = FromBE16(bytes, 2),
                                 !.length = FromBE32(bytes, 4),
                                 !.client_id = FromBE16(bytes, 8),
                                 !.session_id = FromBE16(bytes, 10),
                                 !.protocol_version = bytes[13],
                                 !.interface_version = bytes[14],
                                 !.message_type = bytes[15],
                                 !.return_code = bytes[16]]
             offset == 16
         IN IF header.length < 8
            THEN [ok |-> FALSE, message |-> header]
            ELSE LET expected_payload_size == header.length - 8
                     actual_payload_size == Len(bytes) - offset
                 IN IF actual_payload_size # expected_payload_size
                    THEN [ok |-> FALSE, message |-> header]
                    ELSE LET full == [header EXCEPT
                                         !.payload = SubSeq(bytes, offset + 1, Len(bytes))]
                         IN [ok |-> is_valid(full), message |-> full]

----------------------------------------------------------------------------
(* TpSegmenter (tp_segmenter.cpp)                                          *)

\* payload[from, from + n)
Slice(bytes, from, n) == SubSeq(bytes, from + 1, from + n)

\* the while loop of create_multi_segments, payload_offset being uint16_t
RECURSIVE subsequent_segments(_, _, _, _)
subsequent_segments(cfg, payload, sequence_number, payload_offset) ==
    LET total_length == Len(payload)
    IN IF ~(payload_offset < total_length)
       THEN <<>>
       ELSE LET remaining_bytes == total_length - payload_offset
                ty == IF remaining_bytes <= cfg.max_segment_size
                      THEN LAST_SEGMENT ELSE CONSECUTIVE_SEGMENT
                payload_size == U16(Min(cfg.max_segment_size, remaining_bytes))
                seg == TpSegment(total_length, payload_offset, payload_size,
                                 sequence_number, ty,
                                 Slice(payload, payload_offset, payload_size))
            IN <<seg>> \o subsequent_segments(cfg, payload, sequence_number,
                                              U16(payload_offset + payload_size))

\* create_multi_segments giving the segments after the first the next
\* sequence number
create_multi_segments_next_sequence(cfg, m, payload, segs, next_seq) ==
    LET total_length == Len(payload)
        sequence_number == next_seq
        first_payload_size ==
            IF cfg.max_segment_size >= HeaderSize
            THEN Min(cfg.max_segment_size - HeaderSize, total_length)
            ELSE total_length
        header == SubSeq(serialize(m), 1, HeaderSize) \o Slice(payload, 0, first_payload_size)
        first == TpSegment(total_length, 0, U16(Len(header)), sequence_number,
                           FIRST_SEGMENT, header)
    IN [result |-> "SUCCESS",
        segments |-> (segs \o <<first>>)
                     \o subsequent_segments(cfg, payload, U8(sequence_number + 1),
                                            U16(first_payload_size)),
        next_sequence_number |-> (U8(next_seq + 1) + 1) % 256]

\* max_segment_size - 16 is computed in uint32_t: below 16 it wraps to a
\* value above every payload length, so the minimum is total_length
create_multi_segments(cfg, m, payload, segs, next_seq) ==
    LET total_length == Len(payload)
        sequence_number == next_seq
        first_payload_size ==
            IF cfg.max_segment_size >= HeaderSize
            THEN Min(cfg.max_segment_size - HeaderSize, total_length)
            ELSE total_length
        header == SubSeq(serialize(m), 1, HeaderSize) \o Slice(payload, 0, first_payload_size)
        first == TpSegment(total_length, 0, U16(Len(header)), sequence_number,
                           FIRST_SEGMENT, header)
    IN [result |-> "SUCCESS",
        segments |-> (segs \o <<first>>)
                     \o subsequent_segments(cfg, payload, sequence_number,
                                            U16(first_payload_size)),
        next_sequence_number |-> (U8(next_seq + 1) + 1) % 256]

\* segment_message turning down a payload of exactly max_message_size
segment_message_at_limit(cfg, m, segs, next_seq) ==
    LET payload == m.payload
    IN IF Len(payload) >= cfg.max_message_size
       THEN [result |-> "MESSAGE_TOO_LARGE", segments |-> segs,
             next_sequence_number |-> next_seq]
       ELSE IF Len(payload) <= cfg.max_segment_size
       THEN LET message_data == serialize(m)
                segment == TpSegment(Len(payload), 0, U16(Len(message_data)),
                                     next_seq, SINGLE_MESSAGE, message_data)
            IN [result |-> "SUCCESS", segments |-> segs \o <<segment>>,
                next_sequence_number |-> U8(next_seq + 1)]
       ELSE create_multi_segments(cfg, m, payload, segs, next_seq)

\* result, the output vector and next_sequence_number_ after the call
segment_message(cfg, m, segs, next_seq) ==
    LET payload == m.payload
    IN IF Len(payload) > cfg.max_message_size
       THEN [result |-> "MESSAGE_TOO_LARGE", segments |-> segs,
             next_sequence_number |-> next_seq]
       ELSE IF Len(payload) <= cfg.max_segment_size
       THEN LET message_data == serialize(m)
                segment == TpSegment(Len(payload), 0, U16(Len(message_data)),
                                     next_seq, SINGLE_MESSAGE, message_data)
            IN [result |-> "SUCCESS", segments |-> segs \o <<segment>>,
                next_sequence_number |-> U8(next_seq + 1)]
       ELSE create_multi_segments(cfg, m, payload, segs, next_seq)

----------------------------------------------------------------------------
(* TpManager (tp_manager.cpp), receiving side                              *)

NoStatistics ==
    [messages_segmented |-> 0, messages_reassembled |-> 0, segments_sent |-> 0,
     segments_received |-> 0, retransmissions |-> 0, timeouts |-> 0, errors |-> 0]

\* the statistics, the return value, the output parameter and the
\* reassembler's map after the call
handle_received_segment(cfg, stats, bufs, segment, t) ==
    LET stats2 == [stats EXCEPT !.segments_received = @ + 1]
    IN IF segment.message_type = SINGLE_MESSAGE
       THEN [statistics |-> stats2, ret |-> TRUE, complete |-> TRUE,
             message |-> segment.payload, buffers |-> bufs]
       ELSE LET r == process_segment(cfg, bufs, segment, t)
            IN [statistics |-> stats2, ret |-> r.ret, complete |-> r.complete,
                message |-> r.message, buffers |-> r.buffers]

----------------------------------------------------------------------------
(* TpManager (tp_manager.cpp), sending side and time-outs                  *)

\* TpTransfer(id, msg_id)
TpTransfer(id, msg_id, t) ==
    [transfer_id |-> id, message_id |-> msg_id, state |-> "IDLE", segments |-> <<>>,
     next_segment_to_send |-> 0, start_time |-> t, last_activity |-> t,
     retry_count |-> 0]

\* TpSegment()
DefaultSegment == TpSegment(0, 0, 0, 0, SINGLE_MESSAGE, <<>>)

\* the result, the transfer_id output parameter (0: left untouched) and the
\* manager's and segmenter's fields after the call
TpManager_segment_message(cfg, transfers, next_id, stats, next_seq, m, t) ==
    IF Cardinality(DOMAIN transfers) >= cfg.max_concurrent_transfers
    THEN [result |-> "RESOURCE_EXHAUSTED", transfer_id |-> 0,
          active_transfers |-> transfers, next_transfer_id |-> next_id,
          statistics |-> stats, next_sequence_number |-> next_seq]
    ELSE LET transfer_id == next_id
             message_id == m.service_id * 65536 + m.method_id
             r == segment_message(cfg, m, <<>>, next_seq)
             transfer == [TpTransfer(transfer_id, message_id, t) EXCEPT
                             !.segments = r.segments, !.state = "SENDING"]
         IN IF r.result # "SUCCESS"
            THEN [result |-> r.result, transfer_id |-> transfer_id,
                  active_transfers |-> transfers, next_transfer_id |-> next_id + 1,
                  statistics |-> stats, next_sequence_number |-> r.next_sequence_number]
            ELSE [result |-> "SUCCESS", transfer_id |-> transfer_id,
                  active_transfers |-> Put(transfers, transfer_id, transfer),
                  next_transfer_id |-> next_id + 1,
                  statistics |-> [stats EXCEPT !.messages_segmented = @ + 1],
                  next_sequence_number |-> r.next_sequence_number]

\* get_next_segment that counts a sent segment also when none is left
TpManager_get_next_segment_counts_empty(transfers, stats, transfer_id, t) ==
    IF transfer_id \notin DOMAIN transfers
    THEN [result |-> "INVALID_SEGMENT", assigned |-> FALSE, segment |-> DefaultSegment,
          active_transfers |-> transfers, statistics |-> stats]
    ELSE LET transfer == transfers[transfer_id]
         IN IF transfer.next_segment_to_send >= Len(transfer.segments)
            THEN [result |-> "SUCCESS", assigned |-> TRUE, segment |-> DefaultSegment,
                  active_transfers |-> [transfers EXCEPT ![transfer_id].state = "COMPLETE"],
                  statistics |-> [stats EXCEPT !.segments_sent = @ + 1]]
            ELSE [result |-> "SUCCESS", assigned |-> TRUE,
                  segment |-> transfer.segments[transfer.next_segment_to_send + 1],
                  active_transfers |->
                      [transfers EXCEPT ![transfer_id].next_segment_to_send = @ + 1,
                                        ![transfer_id].last_activity = t],
                  statistics |-> [stats EXCEPT !.segments_sent = @ + 1]]

\* the result, the segment output parameter (assigned or not) and the
\* manager's fields after the call
TpManager_get_next_segment(transfers, stats, transfer_id, t) ==
    IF transfer_id \notin DOMAIN transfers
    THEN [result |-> "INVALID_SEGMENT", assigned |-> FALSE, segment |-> DefaultSegment,
          active_transfers |-> transfers, statistics |-> stats]
    ELSE LET transfer == transfers[transfer_id]
         IN IF transfer.next_segment_to_send >= Len(transfer.segments)
            THEN [result |-> "SUCCESS", assigned |-> TRUE, segment |-> DefaultSegment,
                  active_transfers |-> [transfers EXCEPT ![transfer_id].state = "COMPLETE"],
                  statistics |-> stats]
            ELSE [result |-> "SUCCESS", assigned |-> TRUE,
                  segment |-> transfer.segments[transfer.next_segment_to_send + 1],
                  active_transfers |->
                      [transfers EXCEPT ![transfer_id].next_segment_to_send = @ + 1,
                                        ![transfer_id].last_activity = t],
                  statistics |-> [stats EXCEPT !.segments_sent = @ + 1]]

cleanup_completed_transfers(transfers) ==
    LET keep == {k \in DOMAIN transfers : transfers[k].state \notin {"COMPLETE", "FAILED"}}
    IN [k \in keep |-> transfers[k]]

\* the transfers whose idle time exceeds the timeout; for each of them
\* TpManager::process_timeouts counts a timeout, runs the completion
\* callback if one is set, and erases the transfer
timed_out_transfers(cfg, transfers, t) ==
    {k \in DOMAIN transfers :
        ElapsedMs(transfers[k].last_activity, t) > cfg.reassembly_timeout}

\* the completion callback ran once more for each id of ids
Notify(cb, ids) ==
    [k \in DOMAIN cb \cup ids |->
        (IF k \in DOMAIN cb THEN cb[k] ELSE 0) + (IF k \in ids THEN 1 ELSE 0)]

TpManager_process_timeouts(cfg, transfers, stats, has_callback, cb, bufs, t) ==
    LET timed == timed_out_transfers(cfg, transfers, t)
        left == [k \in DOMAIN transfers \ timed |-> transfers[k]]
    IN [timed_out |-> timed,
        statistics |-> [stats EXCEPT !.timeouts = @ + Cardinality(timed)],
        callbacks |-> IF has_callback THEN Notify(cb, timed) ELSE cb,
        buffers |-> process_timeouts(cfg, bufs, t),
        active_transfers |-> cleanup_completed_transfers(left)]

----------------------------------------------------------------------------
(* Specification Spec: one TpReassembler driven by its public entry points *)
(* with segments as they may arrive from the network.                      *)

TestConfig ==
    [max_segment_size |-> HeaderSize + 1,
     max_message_size |-> MaxMessageSize,
     reassembly_timeout |-> ReassemblyTimeout,
     max_concurrent_transfers |-> MaxConcurrentTransfers]

SeqNums == 0..MaxSeq

\* payload bytes that differ by position and by sender
Bytes(fill, n) == [j \in 1..n |-> U8(fill + 3 * (j - 1))]

Fills == {1, 2}

\* what sender 0 may put on the wire for a message of MaxMessageSize bytes:
\* a FIRST_SEGMENT carrying the header and one payload byte, one carrying
\* only a part of the header, an empty one, and segments covering [0, 1),
\* [1, 2) and [1, MaxMessageSize)
Sender0Segments ==
    {TpSegment(MaxMessageSize, 0, HeaderSize + 1, 0, ty, Bytes(fill, HeaderSize + 1)) :
        ty \in {FIRST_SEGMENT, SINGLE_MESSAGE}, fill \in Fills}
    \cup {TpSegment(MaxMessageSize, 0, n, 0, FIRST_SEGMENT, Bytes(1, n)) : n \in {0, 1}}
    \cup {TpSegment(MaxMessageSize, off, 1, 0, CONSECUTIVE_SEGMENT, Bytes(1, 1)) :
        off \in {0, 1}}
    \cup {TpSegment(MaxMessageSize, 1, MaxMessageSize - 1, 0, LAST_SEGMENT,
                    Bytes(fill, MaxMessageSize - 1)) : fill \in Fills}

\* sender 1 sends one message in two segments
Sender1Segments ==
    {TpSegment(MaxMessageSize, 0, HeaderSize + 1, 1, FIRST_SEGMENT, Bytes(1, HeaderSize + 1)),
     TpSegment(MaxMessageSize, 1, MaxMessageSize - 1, 1, LAST_SEGMENT,
               Bytes(1, MaxMessageSize - 1))}

\* segments that break an invariant of TpSegment, and an empty message
OddSegments ==
    {TpSegment(MaxMessageSize, 0, 2, 0, CONSECUTIVE_SEGMENT, Bytes(1, 1)),
     TpSegment(MaxMessageSize + 1, 0, HeaderSize + 1, 0, FIRST_SEGMENT, Bytes(1, HeaderSize + 1)),
     TpSegment(MaxMessageSize, 2, MaxMessageSize - 1, 0, LAST_SEGMENT,
               Bytes(1, MaxMessageSize - 1)),
     TpSegment(0, 0, 0, 0, FIRST_SEGMENT, <<>>)}

WireSegments == Sender0Segments \cup Sender1Segments \cup OddSegments

NoSegment == TpSegment(0, 0, 0, 0, "none", <<>>)

\* what the caller of the last operation observed: the operation, its
\* argument, its return value, the output parameter, the keys that left or
\* entered the map, and the keys cancelled so far
NoMessage == Message(0, 0, 0, 0, 0, 0, <<>>)

\* a TpManager right after construction
IdleManager ==
    /\ active_transfers = EmptyMap
    /\ next_transfer_id = 1
    /\ completion_callback = FALSE
    /\ callbacks = EmptyMap
    /\ wire = {}

\* no codec has run
IdleCodec ==
    /\ wire_data = <<>>
    /\ decoded = NoMessage

\* no Deserializer has been constructed
IdleDeserializer ==
    /\ buffer_ = <<>>
    /\ position_ = 0

\* a SessionManager as constructed, no thread inside it
IdleSessions ==
    /\ sessions_ = EmptyMap
    /\ sessions_mutex_ = 0
    /\ next_session_id_ = 1
    /\ callers = EmptyMap

\* an SdClientImpl as constructed
IdleSdClient ==
    /\ available_services_ = <<>>
    /\ pending_finds_ = EmptyMap
    /\ next_request_id_ = 1
    /\ latest_offer = EmptyMap

\* no segment_message call is running
NotSegmenting == [pc |-> "idle", total_length |-> 0, payload_offset |-> 0, pushed |-> "none"]

\* an RpcClientImpl as constructed, no thread inside it
IdleRpcClient ==
    /\ rpc_running_ = FALSE
    /\ pending_calls_ = EmptyMap
    /\ next_call_handle_ = 1
    /\ callback_runs = EmptyMap
    /\ rpc_threads = EmptyMap
    /\ sessions_size = 0

\* EventPublisherImpl(service_id, instance_id): running_(false),
\* next_session_id_(1), no thread started
NoEventPublisher ==
    [running_ |-> FALSE, events_mutex_ |-> 0, subscriptions_mutex_ |-> 0,
     registered_events_ |-> EmptyMap, subscriptions_ |-> {}, last_publish_times_ |-> {},
     next_session_id_ |-> 1, joinable |-> FALSE, terminated |-> FALSE]

IdleEventPublisher ==
    /\ event_publisher = NoEventPublisher
    /\ ev_threads = EmptyMap

\* a TcpTransport nothing was written to
IdleTcp ==
    /\ tcp_written = <<>>
    /\ tcp_stream = <<>>
    /\ message_queue_ = <<>>

\* the components above the transport protocol, as constructed
IdleApp ==
    /\ IdleSdClient
    /\ segmenting = NotSegmenting
    /\ IdleRpcClient
    /\ IdleEventPublisher
    /\ IdleTcp

\* no thread is inside the reassembler
IdleThreads ==
    /\ buffers_mutex = 0
    /\ threads = EmptyMap
    /\ race_start = EmptyMap

NoCall ==
    [op |-> "init", segment |-> NoSegment, message_id |-> 0, ret |-> TRUE,
     complete |-> FALSE, message |-> <<>>, removed |-> {}, created |-> FALSE,
     cancelled |-> {}, result |-> "SUCCESS", transfer_id |-> 0, timed_out |-> {},
     arg |-> 0]

Init ==
    /\ config = TestConfig
    /\ reassembly_buffers = EmptyMap
    /\ now = 0
    /\ call = NoCall
    /\ message = NoMessage
    /\ segments = <<>>
    /\ next_sequence_number = 0
    /\ receiver = "reassembler"
    /\ fed = <<>>
    /\ outputs = <<>>
    /\ statistics = NoStatistics
    /\ IdleManager
    /\ IdleThreads
    /\ IdleCodec
    /\ IdleDeserializer
    /\ IdleSessions
    /\ IdleApp

\* bool TpReassembler::process_segment(segment, complete_message), the
\* caller passing an empty complete_message
ProcessSegment(segment) ==
    LET r == process_segment(config, reassembly_buffers, segment, now)
    IN /\ reassembly_buffers' = r.buffers
       /\ call' = [NoCall EXCEPT !.op = "process_segment",
                                 !.segment = segment,
                                 !.message_id = segment.sequence_number,
                                 !.ret = r.ret,
                                 !.complete = r.complete,
                                 !.message = r.message,
                                 !.removed = DOMAIN reassembly_buffers \ DOMAIN r.buffers,
                                 !.created = (DOMAIN r.buffers \ DOMAIN reassembly_buffers # {}),
                                 !.cancelled = call.cancelled]
       /\ UNCHANGED <<config, now, txVars, statistics, mgrVars, raceVars, codecVars, serVars, sessVars, appVars>>

\* void TpReassembler::cancel_reassembly(message_id)
CancelReassembly(message_id) ==
    /\ reassembly_buffers' = cancel_reassembly(reassembly_buffers, message_id)
    /\ call' = [NoCall EXCEPT !.op = "cancel_reassembly",
                              !.message_id = message_id,
                              !.removed = DOMAIN reassembly_buffers \ DOMAIN reassembly_buffers',
                              !.cancelled = call.cancelled \cup
                                            (DOMAIN reassembly_buffers \cap {message_id})]
    /\ UNCHANGED <<config, now, txVars, statistics, mgrVars, raceVars, codecVars, serVars, sessVars, appVars>>

\* void TpReassembler::process_timeouts()
ProcessTimeouts ==
    /\ reassembly_buffers' = process_timeouts(config, reassembly_buffers, now)
    /\ call' = [NoCall EXCEPT !.op = "process_timeouts",
                              !.removed = DOMAIN reassembly_buffers \ DOMAIN reassembly_buffers',
                              !.cancelled = call.cancelled]
    /\ UNCHANGED <<config, now, txVars, statistics, mgrVars, raceVars, codecVars, serVars, sessVars, appVars>>

\* the steady clock advances
Tick ==
    /\ now < MaxTime
    /\ now' = now + 1
    /\ call' = [NoCall EXCEPT !.op = "tick", !.cancelled = call.cancelled]
    /\ UNCHANGED <<config, reassembly_buffers, txVars, statistics, mgrVars, raceVars, codecVars, serVars, sessVars, appVars>>

Next ==
    \/ \E segment \in WireSegments : ProcessSegment(segment)
    \/ \E message_id \in SeqNums : CancelReassembly(message_id)
    \/ ProcessTimeouts
    \/ Tick

Spec == Init /\ [][Next]_vars

----------------------------------------------------------------------------
(* Properties of the reassembler, checked under Spec; they hold under      *)
(* SpecTwoSenders, whose behaviours are behaviours of Spec over fewer      *)
(* segments, as well.                                                      *)

\* positions of the message whose bytes a segment carries: a FIRST_SEGMENT
\* or SINGLE_MESSAGE carries its payload minus the SOME/IP header
Carried(g) ==
    LET n == IF g.message_type \in {FIRST_SEGMENT, SINGLE_MESSAGE}
             THEN (IF Len(g.payload) > HeaderSize THEN Len(g.payload) - HeaderSize ELSE 0)
             ELSE Len(g.payload)
    IN {p \in 0..(g.segment_offset + n) : p >= g.segment_offset /\ p < g.segment_offset + n}

\* positions marked in the coverage bitset of a buffer
Marked(b) == {p \in 0..(Len(b.received_segments) - 1) : b.received_segments[p + 1]}

\* C3: feeding the segment of a successful call again, immediately, returns
\* success, delivers nothing the first call did not deliver, and leaves the
\* buffers, their bytes and their coverage as the first call left them.
C3_DuplicateIsNoOp ==
    [][(/\ call.op = "process_segment"
        /\ call.ret
        /\ call'.op = "process_segment"
        /\ call'.segment = call.segment)
       => (/\ call'.ret
           /\ (call'.complete => call.complete /\ call'.message = call.message)
           /\ reassembly_buffers' = reassembly_buffers)]_vars

\* C5: process_segment delivers a message only if every position of
\* [0, message_length) of its buffer is marked or carried by the segment
\* being fed, and the delivered payload has message_length bytes.
C5_DeliveredOnlyWhenCovered ==
    [][(call'.op = "process_segment" /\ call'.complete)
       => LET g == call'.segment
              k == call'.message_id
              had == k \in DOMAIN reassembly_buffers
              total == IF had THEN reassembly_buffers[k].total_length
                       ELSE g.message_length
              marked == IF had THEN Marked(reassembly_buffers[k]) ELSE {}
          IN /\ \A p \in 0..(total - 1) : p \in marked \cup Carried(g)
             /\ Len(call'.message) = total]_vars

\* C7: the reassembler never holds more than max_concurrent_transfers
\* buffers.
C7_CapacityBounded ==
    get_active_reassemblies(reassembly_buffers) <= config.max_concurrent_transfers

\* C8 as stated: process_timeouts removes exactly the buffers whose age
\* now - start_time exceeds reassembly_timeout.
C8_RemovesByExactAge ==
    [][call'.op = "process_timeouts"
       => \A k \in DOMAIN reassembly_buffers :
            (now - reassembly_buffers[k].start_time > config.reassembly_timeout * TicksPerMs)
            <=> ~is_reassembling(reassembly_buffers', k)]_vars

\* C8 amended: process_timeouts removes exactly the buffers whose age in
\* whole milliseconds (truncated) exceeds reassembly_timeout; every other
\* buffer is left as it was, and is_reassembling is false afterwards exactly
\* for the removed ones.
C8_RemovesByWholeMs ==
    [][call'.op = "process_timeouts"
       => /\ \A k \in DOMAIN reassembly_buffers :
                IF ElapsedMs(reassembly_buffers[k].start_time, now) > config.reassembly_timeout
                THEN ~is_reassembling(reassembly_buffers', k)
                ELSE /\ is_reassembling(reassembly_buffers', k)
                     /\ reassembly_buffers'[k] = reassembly_buffers[k]
          /\ DOMAIN reassembly_buffers' \subseteq DOMAIN reassembly_buffers]_vars

\* a call of process_timeouts removed one buffer whose age exceeded the
\* timeout and kept a younger one
C8_Witness ==
    /\ call.op = "process_timeouts"
    /\ call.removed # {}
    /\ \E k \in DOMAIN reassembly_buffers :
          /\ now - reassembly_buffers[k].start_time > config.reassembly_timeout * TicksPerMs
          /\ Marked(reassembly_buffers[k]) # {}

\* C10: cancel_reassembly(seq) removes the buffer of seq at once, and a
\* buffer created afterwards holds nothing but what the creating segment
\* carries: coverage marks and non-zero bytes lie inside that segment's
\* range.
C10_CancelDropsBuffer ==
    [][/\ (call'.op = "cancel_reassembly"
            => /\ ~is_reassembling(reassembly_buffers', call'.message_id)
               /\ \A k \in DOMAIN reassembly_buffers \ {call'.message_id} :
                     /\ is_reassembling(reassembly_buffers', k)
                     /\ reassembly_buffers'[k] = reassembly_buffers[k])
       /\ (call'.op = "process_segment" /\ call'.created
                /\ is_reassembling(reassembly_buffers', call'.message_id)
            => LET b == reassembly_buffers'[call'.message_id]
                   g == call'.segment
               IN /\ b.total_length = g.message_length
                  /\ b.start_time = now
                  /\ Marked(b) \subseteq Carried(g)
                  /\ \A p \in 0..(b.total_length - 1) :
                        p \notin Carried(g) => b.received_data[p + 1] = 0)]_vars

\* a sequence whose partly filled buffer had been cancelled has a new
\* buffer, created by the segment just fed
C10_Witness ==
    /\ call.op = "process_segment"
    /\ call.created
    /\ call.message_id \in call.cancelled
    /\ is_reassembling(reassembly_buffers, call.message_id)
    /\ Marked(reassembly_buffers[call.message_id]) # {}

\* the three structural conditions on a segment
WellFormed(g) ==
    /\ g.segment_length = Len(g.payload)
    /\ g.segment_offset + g.segment_length <= g.message_length
    /\ g.message_length <= config.max_message_size

\* C11: a segment that breaks segment_length = |payload|, segment_offset +
\* segment_length <= message_length or message_length <= max_message_size
\* is rejected: process_segment returns false, creates no buffer and
\* leaves every existing buffer as it was.
C11_InvalidSegmentRejected ==
    [][call'.op = "process_segment" /\ ~WellFormed(call'.segment)
          => /\ ~call'.ret
             /\ ~call'.complete
             /\ call'.message = <<>>
             /\ reassembly_buffers' = reassembly_buffers]_vars

\* an ill-formed segment of a sequence under reassembly was rejected
C11_Witness ==
    /\ call.op = "process_segment"
    /\ ~WellFormed(call.segment)
    /\ ~call.ret
    /\ is_reassembling(reassembly_buffers, call.segment.sequence_number)
    /\ Marked(reassembly_buffers[call.segment.sequence_number]) # {}

\* C24: a CONSECUTIVE_SEGMENT or LAST_SEGMENT whose sequence_number has no
\* buffer is dropped: process_segment returns false, creates no buffer and
\* changes no buffer; and a call creates a buffer only for a FIRST_SEGMENT,
\* with message_length bytes.
C24_OrphanDropped ==
    [][call'.op = "process_segment" =>
          LET g == call'.segment
          IN /\ (/\ g.sequence_number \notin DOMAIN reassembly_buffers
                 /\ g.message_type \in {CONSECUTIVE_SEGMENT, LAST_SEGMENT})
                => ~call'.ret /\ reassembly_buffers' = reassembly_buffers
             /\ \A k \in DOMAIN reassembly_buffers' \ DOMAIN reassembly_buffers :
                   /\ g.message_type = FIRST_SEGMENT
                   /\ k = g.sequence_number
                   /\ reassembly_buffers'[k].total_length = g.message_length
                   /\ Len(reassembly_buffers'[k].received_data) = g.message_length]_vars

----------------------------------------------------------------------------
(* Specification SpecTwoSenders: the same TpReassembler and entry points   *)
(* as Spec, receiving the two-segment messages of two senders and the     *)
(* segments that break an invariant of TpSegment.                          *)

TwoSenderSegments ==
    {TpSegment(MaxMessageSize, 0, HeaderSize + 1, 0, FIRST_SEGMENT, Bytes(2, HeaderSize + 1)),
     TpSegment(MaxMessageSize, 1, MaxMessageSize - 1, 0, LAST_SEGMENT,
               Bytes(2, MaxMessageSize - 1))}
    \cup Sender1Segments \cup OddSegments

NextTwoSenders ==
    \/ \E segment \in TwoSenderSegments : ProcessSegment(segment)
    \/ \E message_id \in SeqNums : CancelReassembly(message_id)
    \/ ProcessTimeouts
    \/ Tick

SpecTwoSenders == Init /\ [][NextTwoSenders]_vars

----------------------------------------------------------------------------
(* Properties of the reassembler's buffers, checked under SpecTwoSenders   *)

\* the byte of the message at position p that segment g carries
ByteAt(g, p) ==
    IF g.message_type \in {FIRST_SEGMENT, SINGLE_MESSAGE}
    THEN g.payload[HeaderSize + (p - g.segment_offset) + 1]
    ELSE g.payload[(p - g.segment_offset) + 1]

\* the buffers of all sequence numbers but k are what they were
OthersKept(k) ==
    \A j \in (DOMAIN reassembly_buffers \cup DOMAIN reassembly_buffers') \ {k} :
        /\ j \in DOMAIN reassembly_buffers
        /\ j \in DOMAIN reassembly_buffers'
        /\ reassembly_buffers'[j] = reassembly_buffers[j]

\* segment g brings the positions that buffer b still misses, and only those
Remaining(b, g) ==
    /\ WellFormed(g)
    /\ g.message_length = b.total_length
    /\ Carried(g) # {}
    /\ Carried(g) \cap Marked(b) = {}
    /\ Carried(g) \cup Marked(b) = 0..(b.total_length - 1)

\* C25: a call about one sequence_number, failed or not, leaves the buffers
\* of every other sequence_number as they were, as does a cancellation; a
\* time-out removes only buffers that are themselves older than the
\* timeout; and a reassembly in flight completes with its stored bytes and
\* the arriving ones when its remaining segment arrives, whatever happened
\* to other sequence numbers in between.
C25_FailuresAreLocal ==
    [][/\ call'.op = "process_segment" => OthersKept(call'.segment.sequence_number)
       /\ call'.op = "cancel_reassembly" => OthersKept(call'.message_id)
       /\ call'.op = "process_timeouts" =>
             \A k \in DOMAIN reassembly_buffers :
                IF ElapsedMs(reassembly_buffers[k].start_time, now) > config.reassembly_timeout
                THEN k \notin DOMAIN reassembly_buffers'
                ELSE /\ k \in DOMAIN reassembly_buffers'
                     /\ reassembly_buffers'[k] = reassembly_buffers[k]
       /\ (/\ call'.op = "process_segment"
           /\ call'.segment.sequence_number \in DOMAIN reassembly_buffers
           /\ Remaining(reassembly_buffers[call'.segment.sequence_number], call'.segment))
          => LET g == call'.segment
                 b == reassembly_buffers[g.sequence_number]
             IN /\ call'.ret
                /\ call'.complete
                /\ call'.message = [i \in 1..b.total_length |->
                                       IF (i - 1) \in Carried(g) THEN ByteAt(g, i - 1)
                                       ELSE b.received_data[i]]
      ]_vars

\* a segment of sequence number 0 was rejected while the reassembly of
\* sequence number 1 is in flight with its first byte stored
C25_Witness ==
    /\ call.op = "process_segment"
    /\ ~call.ret
    /\ call.segment.sequence_number = 0
    /\ 1 \in DOMAIN reassembly_buffers
    /\ Marked(reassembly_buffers[1]) = {0}

----------------------------------------------------------------------------
(* Specification SpecMixedLengths: the same TpReassembler and entry points *)
(* as Spec, receiving segments of sequence number 0 that declare two       *)
(* different message lengths, and the message of sender 1.                 *)

\* a FIRST_SEGMENT of a message of MaxMessageSize - 1 bytes, the segments
\* of a message of MaxMessageSize bytes, and that message's segment alone
MixedLengthSegments ==
    {TpSegment(MaxMessageSize - 1, 0, HeaderSize + 1, 0, FIRST_SEGMENT,
               Bytes(1, HeaderSize + 1)),
     TpSegment(MaxMessageSize - 1, 1, MaxMessageSize - 2, 0, LAST_SEGMENT,
               Bytes(1, MaxMessageSize - 2)),
     TpSegment(MaxMessageSize, 0, HeaderSize + 1, 0, FIRST_SEGMENT, Bytes(2, HeaderSize + 1)),
     TpSegment(MaxMessageSize, 1, MaxMessageSize - 1, 0, LAST_SEGMENT,
               Bytes(2, MaxMessageSize - 1))}
    \cup Sender1Segments

NextMixedLengths ==
    \/ \E segment \in MixedLengthSegments : ProcessSegment(segment)
    \/ \E message_id \in SeqNums : CancelReassembly(message_id)
    \/ ProcessTimeouts
    \/ Tick

SpecMixedLengths == Init /\ [][NextMixedLengths]_vars

----------------------------------------------------------------------------
(* Properties of the reassembler's return value, under SpecMixedLengths    *)

\* C33: a segment that passes validate_segment but ends beyond the total
\* length of the buffer its sequence_number already has is an error:
\* process_segment returns false and leaves that buffer unchanged.
C33_OutOfBoundsReported ==
    [][(/\ call'.op = "process_segment"
        /\ WellFormed(call'.segment)
        /\ call'.segment.sequence_number \in DOMAIN reassembly_buffers
        /\ call'.segment.segment_offset + call'.segment.segment_length
              > reassembly_buffers[call'.segment.sequence_number].total_length)
       => /\ ~call'.ret
          /\ reassembly_buffers' = reassembly_buffers]_vars

----------------------------------------------------------------------------
(* Specification SpecSameSequence: the same TpReassembler and entry points *)
(* as Spec, receiving the two segments of each of two messages that carry  *)
(* the same sequence number, as two senders or a wrapped counter give.     *)

SameSequenceSegments ==
    {g \in Sender0Segments :
        /\ g.message_type \in {FIRST_SEGMENT, LAST_SEGMENT}
        /\ g.segment_length = HeaderSize + 1 \/ g.segment_offset > 0}

NextSameSequence ==
    \/ \E segment \in SameSequenceSegments : ProcessSegment(segment)
    \/ \E message_id \in SeqNums : CancelReassembly(message_id)
    \/ ProcessTimeouts
    \/ Tick

SpecSameSequence == Init /\ [][NextSameSequence]_vars

----------------------------------------------------------------------------
(* Properties of delivery, under SpecSameSequence                          *)

\* the payload of the message of sender `fill`: the byte after the header
\* in its FIRST_SEGMENT, then the bytes of its LAST_SEGMENT
SentPayload(fill) ==
    <<Bytes(fill, HeaderSize + 1)[HeaderSize + 1]>> \o Bytes(fill, MaxMessageSize - 1)

\* C35: a delivered payload is the payload of one sent message; segments
\* of two messages that carry the same sequence_number are not combined.
C35_DeliveredIsOneMessage ==
    (call.op = "process_segment" /\ call.complete)
    => \E fill \in Fills : call.message = SentPayload(fill)

----------------------------------------------------------------------------
(* Specification SpecRoundTrip: a TpSegmenter splits one message and the   *)
(* emitted segments are handed, each once and in any order, to a fresh     *)
(* TpReassembler or to a fresh TpManager.                                  *)

SegmentSizes == {HeaderSize - 1, HeaderSize, HeaderSize + 1, HeaderSize + 2}

RoundTripConfigs ==
    {[max_segment_size |-> s,
      max_message_size |-> MaxPayloadLen - 1,
      reassembly_timeout |-> ReassemblyTimeout,
      max_concurrent_transfers |-> MaxConcurrentTransfers] : s \in SegmentSizes}

\* the message of TpTest: MessageId(0x1234, 0x5678), RequestId(0xABCD, 0x0001),
\* REQUEST, E_OK, with a payload of any length up to the bound
RoundTripMessages ==
    {Message(4660, 22136, 43981, 1, 0, 0, Bytes(1, n)) : n \in 0..MaxPayloadLen}

InitRoundTrip ==
    /\ config \in RoundTripConfigs
    /\ reassembly_buffers = EmptyMap
    /\ now = 0
    /\ call = NoCall
    /\ message \in RoundTripMessages
    /\ segments = <<>>
    /\ next_sequence_number = 0
    /\ receiver \in {"reassembler", "manager"}
    /\ fed = <<>>
    /\ outputs = <<>>
    /\ statistics = NoStatistics
    /\ IdleManager
    /\ IdleThreads
    /\ IdleCodec
    /\ IdleDeserializer
    /\ IdleSessions
    /\ IdleApp

\* TpResult TpSegmenter::segment_message(message, segments)
SegmentMessage ==
    /\ call.op = "init"
    /\ LET r == segment_message(config, message, segments, next_sequence_number)
       IN /\ segments' = r.segments
          /\ next_sequence_number' = r.next_sequence_number
          /\ call' = [NoCall EXCEPT !.op = "segment_message",
                                    !.ret = (r.result = "SUCCESS")]
    /\ UNCHANGED <<config, reassembly_buffers, now, message, receiver, fed,
                   outputs, statistics, mgrVars, raceVars, codecVars, serVars, sessVars, appVars>>

Unfed == {i \in 1..Len(segments) : \A j \in 1..Len(fed) : fed[j] # i}

Output(i, ret, complete, bytes) ==
    [index |-> i, ret |-> ret, complete |-> complete, message |-> bytes]

\* reassembler.process_segment(segments[i], complete_message), the caller
\* passing an empty complete_message
FeedReassembler(i) ==
    /\ receiver = "reassembler"
    /\ LET r == process_segment(config, reassembly_buffers, segments[i], now)
       IN /\ reassembly_buffers' = r.buffers
          /\ outputs' = Append(outputs, Output(i, r.ret, r.complete, r.message))
          /\ call' = [NoCall EXCEPT !.op = "process_segment",
                                    !.segment = segments[i],
                                    !.message_id = segments[i].sequence_number,
                                    !.ret = r.ret,
                                    !.complete = r.complete,
                                    !.message = r.message]
    /\ fed' = Append(fed, i)
    /\ UNCHANGED <<config, now, message, segments, next_sequence_number,
                   receiver, statistics, mgrVars, raceVars, codecVars, serVars, sessVars, appVars>>

\* tp_manager.handle_received_segment(segments[i], complete_message), the
\* caller passing an empty complete_message
FeedManager(i) ==
    /\ receiver = "manager"
    /\ LET r == handle_received_segment(config, statistics, reassembly_buffers,
                                        segments[i], now)
       IN /\ reassembly_buffers' = r.buffers
          /\ statistics' = r.statistics
          /\ outputs' = Append(outputs, Output(i, r.ret, r.complete, r.message))
          /\ call' = [NoCall EXCEPT !.op = "handle_received_segment",
                                    !.segment = segments[i],
                                    !.message_id = segments[i].sequence_number,
                                    !.ret = r.ret,
                                    !.complete = r.complete,
                                    !.message = r.message]
    /\ fed' = Append(fed, i)
    /\ UNCHANGED <<config, now, message, segments, next_sequence_number, receiver,
                   mgrVars, raceVars, codecVars, serVars, sessVars, appVars>>

NextRoundTrip ==
    \/ SegmentMessage
    \/ \E i \in Unfed : FeedReassembler(i)
    \/ \E i \in Unfed : FeedManager(i)

SpecRoundTrip == InitRoundTrip /\ [][NextRoundTrip]_vars

----------------------------------------------------------------------------
(* Properties of segmentation followed by reassembly, under SpecRoundTrip  *)

InEmissionOrder == \A j \in 1..Len(fed) : fed[j] = j

AllFed == segments # <<>> /\ Len(fed) = Len(segments)

\* C1: when a message was split into several segments with
\* max_segment_size >= 17 and all of them were fed, in whatever order, the
\* last call delivered exactly the payload and no earlier call delivered
\* anything.
C1_AnyOrderReassembles ==
    (/\ Len(segments) >= 2
     /\ config.max_segment_size >= HeaderSize + 1
     /\ AllFed)
    => /\ outputs[Len(outputs)].complete
       /\ outputs[Len(outputs)].message = message.payload
       /\ \A j \in 1..(Len(outputs) - 1) : ~outputs[j].complete

\* C2: feeding the segments of a split message in emission order returns
\* true for each, leaves the output empty before the last segment, and on
\* the last segment outputs the original payload.
C2_InOrderReassembles ==
    (Len(segments) >= 2 /\ InEmissionOrder)
    => \A j \in 1..Len(outputs) :
          /\ outputs[j].ret
          /\ (j < Len(segments) => ~outputs[j].complete /\ outputs[j].message = <<>>)
          /\ (j = Len(segments) => /\ outputs[j].complete
                                   /\ outputs[j].message = message.payload
                                   /\ Len(outputs[j].message) = Len(message.payload))

\* the manager received FIRST, CONSECUTIVE, CONSECUTIVE, LAST in this order
\* and returned the payload on the last
C2_Witness ==
    /\ receiver = "manager"
    /\ Len(segments) = 4
    /\ fed = <<1, 2, 3, 4>>
    /\ segments[2].message_type = CONSECUTIVE_SEGMENT
    /\ outputs[4].complete
    /\ outputs[4].message = message.payload
    /\ message.payload # <<>>

\* C6: for a SINGLE_MESSAGE segment the manager outputs the segment's bytes
\* without the 16-byte SOME/IP header, that is the message payload, and
\* creates no reassembly buffer.
C6_SingleMessageStripped ==
    (/\ receiver = "manager"
     /\ Len(fed) = 1
     /\ segments[fed[1]].message_type = SINGLE_MESSAGE)
    => /\ outputs[1].ret
       /\ outputs[1].complete
       /\ outputs[1].message = message.payload
       /\ outputs[1].message = Slice(segments[fed[1]].payload, HeaderSize,
                                     Len(segments[fed[1]].payload) - HeaderSize)
       /\ reassembly_buffers = EmptyMap

----------------------------------------------------------------------------
(* Specification SpecManager: one TpManager that segments messages, hands  *)
(* out their segments, receives them back, and processes time-outs.        *)

ManagerMessages ==
    {Message(4660, 22136, 43981, 1, 0, 0, Bytes(1, n)) :
        n \in {1, MaxMessageSize, MaxMessageSize + 1}}

\* segments that another node sends to this one
PeerSegments == {g \in Sender1Segments : g.message_type = FIRST_SEGMENT}

InitManager ==
    /\ config = TestConfig
    /\ reassembly_buffers = EmptyMap
    /\ now = 0
    /\ call = NoCall
    /\ message = NoMessage
    /\ segments = <<>>
    /\ next_sequence_number = 0
    /\ receiver = "manager"
    /\ fed = <<>>
    /\ outputs = <<>>
    /\ statistics = NoStatistics
    /\ IdleManager
    /\ IdleThreads
    /\ IdleCodec
    /\ IdleDeserializer
    /\ IdleSessions
    /\ IdleApp

\* TpResult TpManager::segment_message(message, transfer_id)
MgrSegmentMessage(m) ==
    /\ next_transfer_id <= MaxTransfers
    /\ LET r == TpManager_segment_message(config, active_transfers, next_transfer_id,
                                          statistics, next_sequence_number, m, now)
       IN /\ active_transfers' = r.active_transfers
          /\ next_transfer_id' = r.next_transfer_id
          /\ statistics' = r.statistics
          /\ next_sequence_number' = r.next_sequence_number
          /\ call' = [NoCall EXCEPT !.op = "TpManager::segment_message",
                                    !.result = r.result,
                                    !.ret = (r.result = "SUCCESS"),
                                    !.transfer_id = r.transfer_id]
    /\ UNCHANGED <<config, reassembly_buffers, now, message, segments, receiver, fed,
                   outputs, completion_callback, callbacks, wire, raceVars, codecVars, serVars, sessVars, appVars>>

\* TpResult TpManager::get_next_segment(transfer_id, segment)
MgrGetNextSegment(transfer_id) ==
    /\ LET r == TpManager_get_next_segment(active_transfers, statistics, transfer_id, now)
       IN /\ active_transfers' = r.active_transfers
          /\ statistics' = r.statistics
          /\ wire' = IF r.assigned /\ r.segment.payload # <<>>
                     THEN wire \cup {r.segment} ELSE wire
          /\ call' = [NoCall EXCEPT !.op = "TpManager::get_next_segment",
                                    !.result = r.result,
                                    !.ret = (r.result = "SUCCESS"),
                                    !.transfer_id = transfer_id,
                                    !.segment = r.segment]
    /\ UNCHANGED <<config, reassembly_buffers, now, txVars, next_transfer_id,
                   completion_callback, callbacks, raceVars, codecVars, serVars, sessVars, appVars>>

\* bool TpManager::handle_received_segment(segment, complete_message), the
\* caller passing an empty complete_message
MgrHandleReceivedSegment(segment) ==
    /\ statistics.segments_received < MaxReceived
    /\ LET r == handle_received_segment(config, statistics, reassembly_buffers,
                                        segment, now)
       IN /\ reassembly_buffers' = r.buffers
          /\ statistics' = r.statistics
          /\ call' = [NoCall EXCEPT !.op = "TpManager::handle_received_segment",
                                    !.segment = segment,
                                    !.message_id = segment.sequence_number,
                                    !.ret = r.ret,
                                    !.complete = r.complete,
                                    !.message = r.message,
                                    !.removed = DOMAIN reassembly_buffers \ DOMAIN r.buffers,
                                    !.created = (DOMAIN r.buffers \ DOMAIN reassembly_buffers # {})]
    /\ UNCHANGED <<config, now, txVars, mgrVars, raceVars, codecVars, serVars, sessVars, appVars>>

\* void TpManager::set_completion_callback(callback)
MgrSetCompletionCallback(set) ==
    /\ completion_callback' = set
    /\ call' = [NoCall EXCEPT !.op = "TpManager::set_completion_callback"]
    /\ UNCHANGED <<config, reassembly_buffers, now, txVars, statistics,
                   active_transfers, next_transfer_id, callbacks, wire, raceVars, codecVars, serVars, sessVars, appVars>>

\* void TpManager::process_timeouts()
MgrProcessTimeouts ==
    /\ LET r == TpManager_process_timeouts(config, active_transfers, statistics,
                                           completion_callback, callbacks,
                                           reassembly_buffers, now)
       IN /\ active_transfers' = r.active_transfers
          /\ statistics' = r.statistics
          /\ callbacks' = r.callbacks
          /\ reassembly_buffers' = r.buffers
          /\ call' = [NoCall EXCEPT !.op = "TpManager::process_timeouts",
                                    !.removed = DOMAIN reassembly_buffers \ DOMAIN r.buffers,
                                    !.timed_out = r.timed_out]
    /\ UNCHANGED <<config, now, txVars, next_transfer_id, completion_callback, wire,
                   raceVars, codecVars, serVars, sessVars, appVars>>

NextManager ==
    \/ \E m \in ManagerMessages : MgrSegmentMessage(m)
    \/ \E transfer_id \in 1..MaxTransfers : MgrGetNextSegment(transfer_id)
    \/ \E segment \in wire \cup PeerSegments : MgrHandleReceivedSegment(segment)
    \/ \E set \in BOOLEAN : MgrSetCompletionCallback(set)
    \/ MgrProcessTimeouts
    \/ Tick

SpecManager == InitManager /\ [][NextManager]_vars

----------------------------------------------------------------------------
(* Properties of the manager's time-out handling, under SpecManager        *)

RECURSIVE SumOver(_, _)
SumOver(f, keys) ==
    IF keys = {} THEN 0
    ELSE LET k == CHOOSE x \in keys : TRUE IN f[k] + SumOver(f, keys \ {k})

\* how often the completion callback has run with TIMEOUT
CallbackRuns(cb) == SumOver(cb, DOMAIN cb)

\* C9: a call of process_timeouts raises statistics.timeouts by one for
\* every reassembly buffer it removes (and for every sender transfer it
\* times out), and runs a registered completion callback as often.
C9_TimeoutsCounted ==
    [][call'.op = "TpManager::process_timeouts"
       => LET gone == Cardinality(DOMAIN reassembly_buffers \ DOMAIN reassembly_buffers')
              timed == Cardinality(call'.timed_out)
          IN /\ statistics'.timeouts = statistics.timeouts + gone + timed
             /\ completion_callback
                  => CallbackRuns(callbacks') = CallbackRuns(callbacks) + gone + timed]_vars

----------------------------------------------------------------------------
(* Specification SpecRace: two threads call process_segment on one         *)
(* TpReassembler at the same time.  validate_segment runs before the       *)
(* std::scoped_lock is taken; everything after it runs under the lock.     *)

Threads == {1, 2}

First0 == TpSegment(MaxMessageSize, 0, HeaderSize + 1, 0, FIRST_SEGMENT,
                    Bytes(1, HeaderSize + 1))

\* the map after one FIRST_SEGMENT of sender 0 was processed
AfterFirst == process_segment(TestConfig, EmptyMap, First0, 0).buffers

RaceStarts == {EmptyMap, AfterFirst}

\* FIRST_SEGMENT, [1, 2) and the two LAST_SEGMENTs covering [1, MaxMessageSize)
RaceSegments ==
    {g \in Sender0Segments :
        \/ g.message_type = LAST_SEGMENT
        \/ g = First0
        \/ g.message_type = CONSECUTIVE_SEGMENT /\ g.segment_offset = 1}

Thread(pc, segment, added, ret, complete, bytes) ==
    [pc |-> pc, segment |-> segment, added |-> added, ret |-> ret,
     complete |-> complete, message |-> bytes]

InitRace ==
    /\ config = TestConfig
    /\ race_start \in RaceStarts
    /\ reassembly_buffers = race_start
    /\ now = 0
    /\ call = NoCall
    /\ message = NoMessage
    /\ segments = <<>>
    /\ next_sequence_number = 0
    /\ receiver = "reassembler"
    /\ fed = <<>>
    /\ outputs = <<>>
    /\ statistics = NoStatistics
    /\ IdleManager
    /\ IdleCodec
    /\ IdleDeserializer
    /\ IdleSessions
    /\ IdleApp
    /\ buffers_mutex = 0
    /\ threads \in [Threads -> {Thread("start", g, FALSE, FALSE, FALSE, <<>>) :
                                   g \in RaceSegments}]

raceFrame == <<config, now, call, txVars, statistics, mgrVars, race_start, codecVars,
              serVars, sessVars, appVars>>

\* if (!validate_segment(segment)) return false;
RaceValidate(t) ==
    /\ threads[t].pc = "start"
    /\ threads' = [threads EXCEPT ![t].pc =
                      IF validate_segment(config, threads[t].segment)
                      THEN "validated" ELSE "returned"]
    /\ UNCHANGED <<reassembly_buffers, buffers_mutex, raceFrame>>

\* std::scoped_lock lock(buffers_mutex_);
RaceLock(t) ==
    /\ threads[t].pc = "validated"
    /\ buffers_mutex = 0
    /\ buffers_mutex' = t
    /\ threads' = [threads EXCEPT ![t].pc = "locked"]
    /\ UNCHANGED <<reassembly_buffers, raceFrame>>

\* buffer = find_or_create_buffer(segment); if (!buffer) return false;
RaceFindOrCreate(t) ==
    /\ threads[t].pc = "locked"
    /\ LET fc == find_or_create_buffer(reassembly_buffers, threads[t].segment, now)
       IN /\ reassembly_buffers' = fc.buffers
          /\ threads' = [threads EXCEPT ![t].pc = IF fc.found THEN "found" ELSE "returned"]
          /\ buffers_mutex' = IF fc.found THEN buffers_mutex ELSE 0
    /\ UNCHANGED raceFrame

\* add_segment_to_buffer(*buffer, segment)
RaceAddSegment(t) ==
    /\ threads[t].pc = "found"
    /\ LET key == threads[t].segment.sequence_number
           a == add_segment_to_buffer(reassembly_buffers[key], threads[t].segment)
       IN /\ reassembly_buffers' = [reassembly_buffers EXCEPT ![key] = a.buffer]
          /\ threads' = [threads EXCEPT ![t].pc = "added", ![t].added = a.ok]
    /\ UNCHANGED <<buffers_mutex, raceFrame>>

\* the completion test, the erase, the return and the release of the lock
RaceFinish(t) ==
    /\ threads[t].pc = "added"
    /\ LET key == threads[t].segment.sequence_number
           b == reassembly_buffers[key]
       IN IF threads[t].added /\ is_complete(b)
          THEN /\ reassembly_buffers' = Erase(reassembly_buffers, b.message_id)
               /\ threads' = [threads EXCEPT
                                 ![t].pc = "returned", ![t].ret = TRUE,
                                 ![t].complete = TRUE,
                                 ![t].message =
                                     get_complete_message([b EXCEPT !.complete = TRUE])]
          ELSE /\ reassembly_buffers' = reassembly_buffers
               /\ threads' = [threads EXCEPT ![t].pc = "returned", ![t].ret = TRUE]
    /\ buffers_mutex' = 0
    /\ UNCHANGED raceFrame

NextRace ==
    \E t \in Threads :
        \/ RaceValidate(t)
        \/ RaceLock(t)
        \/ RaceFindOrCreate(t)
        \/ RaceAddSegment(t)
        \/ RaceFinish(t)

SpecRace == InitRace /\ [][NextRace]_vars

----------------------------------------------------------------------------
(* Properties of concurrent completion, under SpecRace                     *)

\* the segment, processed alone on the map, would complete a message
WouldComplete(bufs, g) == process_segment(config, bufs, g, now).complete

\* C4: when both threads were started with a segment that would complete
\* the coverage of the same sequence and both have returned, one of them
\* returned the assembled payload and the other returned success without
\* a payload, the buffer being gone.
C4_ExactlyOneDelivers ==
    (/\ \A t \in Threads : threads[t].pc = "returned"
     /\ \A t \in Threads : WouldComplete(race_start, threads[t].segment)
     /\ \A t, u \in Threads :
           threads[t].segment.sequence_number = threads[u].segment.sequence_number)
    => \E winner, loser \in Threads :
          /\ winner # loser
          /\ threads[winner].ret
          /\ threads[winner].complete
          /\ Len(threads[winner].message) = threads[winner].segment.message_length
          /\ threads[loser].ret
          /\ ~threads[loser].complete
          /\ threads[loser].message = <<>>
          /\ ~is_reassembling(reassembly_buffers, threads[loser].segment.sequence_number)

----------------------------------------------------------------------------
(* Specification SpecConfigRace: two threads inside process_segment while  *)
(* a third calls update_config on the same reassembler.                    *)

\* the thread that calls update_config
Updater == 3

\* void TpReassembler::update_config(config): config_ = config
update_config(cfg, new_config) == new_config

\* the configuration the updater installs: one byte less per message
NewConfig == [TestConfig EXCEPT !.max_message_size = MaxMessageSize - 1]

InitConfigRace ==
    /\ config = TestConfig
    /\ race_start \in RaceStarts
    /\ reassembly_buffers = race_start
    /\ now = 0
    /\ call = NoCall
    /\ message = NoMessage
    /\ segments = <<>>
    /\ next_sequence_number = 0
    /\ receiver = "reassembler"
    /\ fed = <<>>
    /\ outputs = <<>>
    /\ statistics = NoStatistics
    /\ IdleManager
    /\ IdleCodec
    /\ IdleDeserializer
    /\ IdleSessions
    /\ IdleApp
    /\ buffers_mutex = 0
    /\ \E g1, g2 \in RaceSegments :
          threads = [t \in Threads \cup {Updater} |->
                        IF t = Updater THEN [pc |-> "start", config |-> NewConfig]
                        ELSE Thread("start", IF t = 1 THEN g1 ELSE g2,
                                    FALSE, FALSE, FALSE, <<>>)]

cfgFrame == <<now, call, txVars, statistics, mgrVars, race_start, codecVars, serVars,
              sessVars, appVars>>

\* update_config: the assignment to config_ begins; no lock is taken
UpdateConfigBegin ==
    /\ threads[Updater].pc = "start"
    /\ threads' = [threads EXCEPT ![Updater].pc = "writing"]
    /\ UNCHANGED <<config, reassembly_buffers, buffers_mutex, cfgFrame>>

\* update_config: the assignment to config_ is done
UpdateConfigEnd ==
    /\ threads[Updater].pc = "writing"
    /\ config' = update_config(config, threads[Updater].config)
    /\ threads' = [threads EXCEPT ![Updater].pc = "returned"]
    /\ UNCHANGED <<reassembly_buffers, buffers_mutex, cfgFrame>>

\* what a read of config_ may see: while the assignment is under way, the
\* value before it or the value after it
ConfigSeen ==
    IF threads[Updater].pc = "writing" THEN {config, threads[Updater].config} ELSE {config}

\* if (!validate_segment(segment)) return false; before the lock is taken
ConfigRaceValidate(t) ==
    /\ threads[t].pc = "start"
    /\ \E seen \in ConfigSeen :
          threads' = [threads EXCEPT ![t].pc =
                         IF validate_segment(seen, threads[t].segment)
                         THEN "validated" ELSE "returned"]
    /\ UNCHANGED <<config, reassembly_buffers, buffers_mutex, cfgFrame>>

NextConfigRace ==
    \/ UpdateConfigBegin
    \/ UpdateConfigEnd
    \/ \E t \in Threads :
          \/ ConfigRaceValidate(t)
          \/ RaceLock(t)
          \/ RaceFindOrCreate(t)
          \/ RaceAddSegment(t)
          \/ RaceFinish(t)

SpecConfigRace == InitConfigRace /\ [][NextConfigRace]_vars

\* C28: the reassembler's entry points are atomic with respect to one
\* another: a call reads the configuration it depends on and touches the
\* buffer map only while it holds the mutex, the configuration is changed
\* only under the mutex, and so the segment a call stores is valid under
\* the configuration in force while the call holds the mutex.
C28_EntryPointsAtomic ==
    [][/\ \A t \in Threads :
             /\ (threads[t].pc = "start" /\ threads'[t].pc # "start") => buffers_mutex = t
             /\ (threads[t].pc = "locked" /\ threads'[t].pc = "found")
                   => validate_segment(config, threads[t].segment)
       /\ reassembly_buffers' # reassembly_buffers => buffers_mutex \in Threads
       /\ config' # config => buffers_mutex = Updater
      ]_vars

----------------------------------------------------------------------------
(* Specification SpecSegmenter: one message is segmented, by a TpSegmenter *)
(* or through a fresh TpManager, the sequence counter standing anywhere.   *)

\* values of next_sequence_number_ next to the start and to the wrap
SequenceStarts == {0, 1, 254, 255}

InitSegmenter ==
    /\ config \in RoundTripConfigs
    /\ reassembly_buffers = EmptyMap
    /\ now = 0
    /\ call = NoCall
    /\ message = NoMessage
    /\ segments = <<>>
    /\ next_sequence_number \in SequenceStarts
    /\ receiver = "reassembler"
    /\ fed = <<>>
    /\ outputs = <<>>
    /\ statistics = NoStatistics
    /\ IdleManager
    /\ IdleThreads
    /\ IdleCodec
    /\ IdleDeserializer
    /\ IdleSessions
    /\ IdleApp

\* TpResult TpSegmenter::segment_message(message, segments), the caller
\* passing an empty vector
SegmenterSegmentMessage(m) ==
    /\ call.op = "init"
    /\ LET r == segment_message(config, m, <<>>, next_sequence_number)
       IN /\ segments' = r.segments
          /\ next_sequence_number' = r.next_sequence_number
          /\ call' = [NoCall EXCEPT !.op = "TpSegmenter::segment_message",
                                    !.result = r.result,
                                    !.ret = (r.result = "SUCCESS")]
    /\ message' = m
    /\ UNCHANGED <<config, reassembly_buffers, now, receiver, fed, outputs,
                   statistics, mgrVars, raceVars, codecVars, serVars, sessVars, appVars>>

\* TpResult TpManager::segment_message(message, transfer_id)
ManagerSegmentMessage(m) ==
    /\ call.op = "init"
    /\ LET r == TpManager_segment_message(config, active_transfers, next_transfer_id,
                                          statistics, next_sequence_number, m, now)
       IN /\ active_transfers' = r.active_transfers
          /\ next_transfer_id' = r.next_transfer_id
          /\ statistics' = r.statistics
          /\ next_sequence_number' = r.next_sequence_number
          /\ call' = [NoCall EXCEPT !.op = "TpManager::segment_message",
                                    !.result = r.result,
                                    !.ret = (r.result = "SUCCESS"),
                                    !.transfer_id = r.transfer_id]
    /\ message' = m
    /\ UNCHANGED <<config, reassembly_buffers, now, segments, receiver, fed, outputs,
                   completion_callback, callbacks, wire, raceVars, codecVars, serVars, sessVars, appVars>>

NextSegmenter ==
    \E m \in RoundTripMessages :
        \/ SegmenterSegmentMessage(m)
        \/ ManagerSegmentMessage(m)

SpecSegmenter == InitSegmenter /\ [][NextSegmenter]_vars

----------------------------------------------------------------------------
(* Properties of segmentation, under SpecSegmenter                         *)

\* the segmenter emitted the message in FIRST/CONSECUTIVE/LAST form
Split == segments # <<>> /\ segments[1].message_type # SINGLE_MESSAGE

Shaped ==
    /\ Len(segments) >= 2
    /\ segments[1].message_type = FIRST_SEGMENT
    /\ segments[Len(segments)].message_type = LAST_SEGMENT
    /\ \A j \in 2..(Len(segments) - 1) : segments[j].message_type = CONSECUTIVE_SEGMENT
    /\ \A j \in 1..Len(segments) : segments[j].sequence_number = segments[1].sequence_number

C13_FitsMtu ==
    (/\ call.op = "TpSegmenter::segment_message"
     /\ call.ret
     /\ config.max_segment_size >= HeaderSize + 1)
    => /\ \A j \in 1..Len(segments) :
             Len(segments[j].payload) <= config.max_segment_size
       /\ ~Split <=> HeaderSize + Len(message.payload) <= config.max_segment_size

C15_OneSequencePerMessage ==
    [][call'.op = "TpSegmenter::segment_message" /\ call'.ret
          => /\ \A j \in 1..Len(segments') :
                   segments'[j].sequence_number = next_sequence_number
             /\ next_sequence_number' = (next_sequence_number + 1) % 256]_vars

\* the number of payload bytes of the message that segment j carries
PayloadBytes(j) ==
    IF segments[j].message_type \in {FIRST_SEGMENT, SINGLE_MESSAGE}
    THEN Len(segments[j].payload) - HeaderSize
    ELSE Len(segments[j].payload)

RECURSIVE BytesBefore(_)
BytesBefore(j) == IF j <= 1 THEN 0 ELSE BytesBefore(j - 1) + PayloadBytes(j - 1)

\* C26: the segments of a split message with payload length N tile [0, N):
\* the FIRST_SEGMENT carries the header and the first max_segment_size - 16
\* payload bytes at offset 0, every CONSECUTIVE_SEGMENT max_segment_size
\* bytes, the LAST_SEGMENT the remaining 1..max_segment_size bytes, each
\* segment_offset is the number of payload bytes carried before it, and
\* every message_length is N.
C26_SegmentsTile ==
    Split =>
       LET N == Len(message.payload)
           last == Len(segments)
       IN /\ segments[1].message_type = FIRST_SEGMENT
          /\ segments[1].segment_offset = 0
          /\ SubSeq(segments[1].payload, 1, HeaderSize) = SubSeq(serialize(message), 1, HeaderSize)
          /\ PayloadBytes(1) = config.max_segment_size - HeaderSize
          /\ \A j \in 1..last :
                /\ segments[j].message_length = N
                /\ segments[j].segment_offset = BytesBefore(j)
                /\ segments[j].message_type = CONSECUTIVE_SEGMENT
                      => PayloadBytes(j) = config.max_segment_size
                /\ segments[j].message_type = LAST_SEGMENT
                      => PayloadBytes(j) \in 1..config.max_segment_size
                /\ \A p \in 1..PayloadBytes(j) :
                      segments[j].payload[Len(segments[j].payload) - PayloadBytes(j) + p]
                         = message.payload[BytesBefore(j) + p]
          /\ segments[last].message_type = LAST_SEGMENT
          /\ BytesBefore(last + 1) = N

\* C27: every segment the segmenter emits has segment_length = |payload|
\* and segment_offset + segment_length <= message_length, its 16-bit fields
\* holding the untruncated values, and passes the reassembler's
\* validate_segment.
C27_EmittedSegmentsValid ==
    (call.op = "TpSegmenter::segment_message" /\ call.ret) =>
       \A j \in 1..Len(segments) :
          /\ segments[j].segment_length = Len(segments[j].payload)
          /\ segments[j].segment_offset = BytesBefore(j)
          /\ segments[j].segment_offset + segments[j].segment_length
                <= segments[j].message_length
          /\ validate_segment(config, segments[j])

----------------------------------------------------------------------------
(* Specification SpecCodec: a Message is built, changed through its        *)
(* setters and serialized, or bytes arrive from the network; the bytes     *)
(* are then decoded into a fresh Message.                                  *)

\* message_type and return_code bytes, the last of each outside its enum
CodecMessageTypes == {0, 2, 34, 3}
CodecReturnCodes == {0, 2, 16}

\* the message of MessageTest: MessageId(0x1234, 0x5678),
\* RequestId(0x9ABC, 0xDEF0), with set_payload of up to MaxCodecPayload bytes
CodecMessages ==
    {Message(4660, 22136, 39612, 57072, ty, rc, Bytes(5, n)) :
        ty \in CodecMessageTypes, rc \in CodecReturnCodes, n \in 0..MaxCodecPayload}

\* values of the length field: below 8, and 8 + n around the payloads
StoredLengths == {0, 7} \cup {8 + n : n \in 0..(MaxCodecPayload + 1)}

Frame(length, n) ==
    serialize(set_length(Message(4660, 22136, 39612, 57072, 0, 0, Bytes(5, n)), length))

\* frames with any of those length fields, whole or cut short
WireFrames ==
    UNION {{SubSeq(Frame(length, n), 1, k) :
               k \in {0, 8, MIN_MESSAGE_SIZE - 1, MIN_MESSAGE_SIZE + n}} :
           length \in StoredLengths, n \in 0..MaxCodecPayload}

InitCodec ==
    /\ config = TestConfig
    /\ reassembly_buffers = EmptyMap
    /\ now = 0
    /\ call = NoCall
    /\ message \in CodecMessages
    /\ segments = <<>>
    /\ next_sequence_number = 0
    /\ receiver = "reassembler"
    /\ fed = <<>>
    /\ outputs = <<>>
    /\ statistics = NoStatistics
    /\ IdleManager
    /\ IdleThreads
    /\ IdleCodec
    /\ IdleDeserializer
    /\ IdleSessions
    /\ IdleApp

codecFrame == <<config, reassembly_buffers, now, segments, next_sequence_number,
                receiver, fed, outputs, statistics, mgrVars, raceVars, serVars,
                sessVars, appVars>>

\* message.set_length(length)
SetLength(length) ==
    /\ call.op = "init"
    /\ message' = set_length(message, length)
    /\ call' = [NoCall EXCEPT !.op = "set_length"]
    /\ UNCHANGED <<codecFrame, codecVars>>

\* message.set_interface_version(version)
SetInterfaceVersion(version) ==
    /\ call.op \in {"init", "set_length"}
    /\ message' = set_interface_version(message, version)
    /\ call' = [NoCall EXCEPT !.op = "set_interface_version"]
    /\ UNCHANGED <<codecFrame, codecVars>>

\* data = message.serialize()
Serialize ==
    /\ call.op \in {"init", "set_length", "set_interface_version"}
    /\ wire_data' = serialize(message)
    /\ call' = [NoCall EXCEPT !.op = "serialize"]
    /\ UNCHANGED <<codecFrame, message, decoded>>

\* bytes arrive from the network
Receive(bytes) ==
    /\ call.op = "init"
    /\ wire_data' = bytes
    /\ call' = [NoCall EXCEPT !.op = "receive"]
    /\ UNCHANGED <<codecFrame, message, decoded>>

\* Message deserialized; deserialized.deserialize(data)
Deserialize ==
    /\ call.op \in {"serialize", "receive"}
    /\ LET r == deserialize(decoded, wire_data)
       IN /\ decoded' = r.message
          /\ call' = [NoCall EXCEPT !.op = "deserialize", !.ret = r.ok]
    /\ UNCHANGED <<codecFrame, message, wire_data>>

NextCodec ==
    \/ \E length \in StoredLengths : SetLength(length)
    \/ SetInterfaceVersion(255)
    \/ Serialize
    \/ \E bytes \in WireFrames : Receive(bytes)
    \/ Deserialize

SpecCodec == InitCodec /\ [][NextCodec]_vars

----------------------------------------------------------------------------
(* Properties of the message codec, under SpecCodec                        *)

\* C16: for a valid message m, deserializing serialize(m) into a fresh
\* message succeeds and gives a message equal to m in every header field
\* and in the payload.
C16_RoundTrip ==
    (/\ call.op = "deserialize"
     /\ wire_data = serialize(message)
     /\ is_valid(message))
    => /\ call.ret
       /\ decoded = message

\* a valid message with a payload went through serialize and deserialize
C16_Witness ==
    /\ call.op = "deserialize"
    /\ wire_data = serialize(message)
    /\ is_valid(message)
    /\ Len(message.payload) = MaxCodecPayload
    /\ decoded.payload = message.payload

\* C17: whatever the stored length is, bytes 4..8 of serialize()'s output
\* decode as big-endian u32 to 8 + |payload|.
C17_LengthRecomputed ==
    call.op = "serialize" => FromBE32(wire_data, 4) = 8 + Len(message.payload)

\* the three ways a frame can be malformed
Malformed(bytes) ==
    \/ Len(bytes) < 16
    \/ FromBE32(bytes, 4) < 8
    \/ Len(bytes) - 16 # FromBE32(bytes, 4) - 8

\* C18: deserialize fails for an input shorter than 16 bytes, for one
\* whose length field is below 8 and for one whose byte count after the
\* 16-byte header differs from length - 8.
C18_MalformedRejected ==
    (call.op = "deserialize" /\ Malformed(wire_data)) => ~call.ret

\* a frame of 16 bytes or more with a length field of 8 or more, but not
\* the payload it announces, was turned down
C18_Witness ==
    /\ call.op = "deserialize"
    /\ Len(wire_data) >= 16
    /\ FromBE32(wire_data, 4) >= 8
    /\ Len(wire_data) - 16 # FromBE32(wire_data, 4) - 8
    /\ ~call.ret

\* C29: a frame of 16 bytes or more with a consistent length field and the
\* versions 1, whose message_type or return_code byte is outside the
\* enumerations, is decoded with success into the structured message, and
\* only is_valid() of that message is false.
C29_OutOfEnumDecodes ==
    (/\ call.op = "deserialize"
     /\ ~Malformed(wire_data)
     /\ wire_data[13] = SOMEIP_PROTOCOL_VERSION
     /\ wire_data[14] = SOMEIP_INTERFACE_VERSION
     /\ wire_data[15] \notin MessageTypes \/ wire_data[16] \notin ReturnCodes)
    => /\ call.ret
       /\ decoded.message_type = wire_data[15]
       /\ decoded.return_code = wire_data[16]
       /\ decoded.payload = SubSeq(wire_data, 17, Len(wire_data))
       /\ ~is_valid(decoded)

\* C30: a deserialize that fails leaves the message it was called on as it
\* was: no header field and no payload byte changes.
C30_FailedDecodeKeepsTarget ==
    [][(call'.op = "deserialize" /\ ~call'.ret) => decoded' = decoded]_vars

----------------------------------------------------------------------------
(* SD message codec (sd_message.cpp)                                       *)

FIND_SERVICE == 0
OFFER_SERVICE == 1
SUBSCRIBE_EVENTGROUP == 6
SUBSCRIBE_EVENTGROUP_ACK == 7
IPV4_ENDPOINT == 4
IPV4_MULTICAST == 20

\* ServiceEntry(type) and EventGroupEntry(type) after their setters; a field
\* the class does not have is kept at 0
ServiceEntry(type, service_id, instance_id, major_version, ttl) ==
    [class |-> "ServiceEntry", type |-> type, index1 |-> 0, index2 |-> 0, ttl |-> ttl,
     service_id |-> service_id, instance_id |-> instance_id,
     major_version |-> major_version, minor_version |-> 0, eventgroup_id |-> 0]

EventGroupEntry(type, service_id, instance_id, major_version, ttl, eventgroup_id) ==
    [class |-> "EventGroupEntry", type |-> type, index1 |-> 0, index2 |-> 0, ttl |-> ttl,
     service_id |-> service_id, instance_id |-> instance_id,
     major_version |-> major_version, minor_version |-> 0,
     eventgroup_id |-> eventgroup_id]

\* type, index1, index2, two option counts, service id, instance id, major
\* version, and the TTL in four bytes: 14 bytes
SdEntry_serialize(e) ==
    <<e.type, e.index1, e.index2, 0, 0, 0, 0, 0, 0, 0>> \o BE32(e.ttl)

\* data[4..8] of the C++ vector are positions 5..9 here
ServiceEntry_serialize(e) ==
    [SdEntry_serialize(e) EXCEPT ![5] = (e.service_id \div 256) % 256,
                                 ![6] = e.service_id % 256,
                                 ![7] = (e.instance_id \div 256) % 256,
                                 ![8] = e.instance_id % 256,
                                 ![9] = e.major_version]

EventGroupEntry_serialize(e) ==
    ServiceEntry_serialize(e) \o BE16(e.eventgroup_id)

\* entry->serialize(), a virtual call
entry_serialize(e) ==
    IF e.class = "ServiceEntry" THEN ServiceEntry_serialize(e)
    ELSE EventGroupEntry_serialize(e)

\* the return value, the entry and the offset after the call
SdEntry_deserialize(e, bytes, offset) ==
    IF offset + 16 > Len(bytes)
    THEN [ok |-> FALSE, entry |-> e, offset |-> offset]
    ELSE [ok |-> TRUE,
          entry |-> [e EXCEPT !.type = bytes[offset + 1],
                              !.index1 = bytes[offset + 2],
                              !.index2 = bytes[offset + 3]],
          offset |-> offset + 5]

ServiceEntry_deserialize(e, bytes, offset) ==
    LET base == SdEntry_deserialize(e, bytes, offset)
        o == base.offset
    IN IF ~base.ok THEN base
       ELSE IF o + 9 > Len(bytes) THEN [base EXCEPT !.ok = FALSE]
       ELSE [ok |-> TRUE,
             entry |-> [base.entry EXCEPT !.service_id = FromBE16(bytes, o),
                                          !.instance_id = FromBE16(bytes, o + 2),
                                          !.major_version = bytes[o + 5],
                                          !.ttl = FromBE32(bytes, o + 5)],
             offset |-> o + 9]

EventGroupEntry_deserialize(e, bytes, offset) ==
    LET base == SdEntry_deserialize(e, bytes, offset)
        o == base.offset
    IN IF ~base.ok THEN base
       ELSE IF o + 11 > Len(bytes) THEN [base EXCEPT !.ok = FALSE]
       ELSE [ok |-> TRUE,
             entry |-> [base.entry EXCEPT !.service_id = FromBE16(bytes, o),
                                          !.instance_id = FromBE16(bytes, o + 2),
                                          !.major_version = bytes[o + 5],
                                          !.ttl = FromBE32(bytes, o + 5),
                                          !.eventgroup_id = FromBE16(bytes, o + 9)],
             offset |-> o + 11]

\* IPv4EndpointOption and IPv4MulticastOption after their setters; length_
\* of the object stays 0
IPv4EndpointOption(ipv4_address, protocol, port) ==
    [class |-> "IPv4EndpointOption", type |-> IPV4_ENDPOINT, length |-> 0,
     ipv4_address |-> ipv4_address, protocol |-> protocol, port |-> port]

IPv4MulticastOption(ipv4_address, port) ==
    [class |-> "IPv4MulticastOption", type |-> IPV4_MULTICAST, length |-> 0,
     ipv4_address |-> ipv4_address, protocol |-> 0, port |-> port]

SdOption_serialize(o) == <<o.type, 0>> \o BE16(o.length)

IPv4EndpointOption_serialize(o) ==
    [SdOption_serialize(o) \o BE32(o.ipv4_address) \o <<0, o.protocol>> \o BE16(o.port)
        EXCEPT ![3] = 0, ![4] = 9]

IPv4MulticastOption_serialize(o) ==
    [SdOption_serialize(o) \o BE32(o.ipv4_address) \o <<0>> \o BE16(o.port)
        EXCEPT ![3] = 0, ![4] = 7]

\* option->serialize(), a virtual call
option_serialize(o) ==
    IF o.class = "IPv4EndpointOption" THEN IPv4EndpointOption_serialize(o)
    ELSE IPv4MulticastOption_serialize(o)

\* SdMessage() and its setters and adders
SdMessage == [flags |-> 0, reserved |-> 0, entries |-> <<>>, options |-> <<>>]
set_flags(m, flags) == [m EXCEPT !.flags = flags]
add_entry(m, entry) == [m EXCEPT !.entries = Append(@, entry)]
add_option(m, option) == [m EXCEPT !.options = Append(@, option)]

RECURSIVE Concat(_)
Concat(vectors) ==
    IF vectors = <<>> THEN <<>> ELSE Head(vectors) \o Concat(Tail(vectors))

\* flags, three reserved bytes, the length of all that follows, the
\* entries and then the options
SdMessage_serialize(m) ==
    LET body == Concat([i \in 1..Len(m.entries) |-> entry_serialize(m.entries[i])])
                \o Concat([i \in 1..Len(m.options) |-> option_serialize(m.options[i])])
    IN <<m.flags, (m.reserved \div 65536) % 256, (m.reserved \div 256) % 256,
         m.reserved % 256>>
       \o BE32(Len(body)) \o body

\* the while loop of SdMessage::deserialize: everything after the header is
\* read as entries, a byte that is no entry type being skipped
RECURSIVE parse_entries(_, _, _, _, _)
parse_entries(bytes, offset, entries_options_length, length, entries) ==
    IF ~(entries_options_length > 0)
    THEN [ok |-> TRUE, entries |-> entries]
    ELSE IF offset + 1 > Len(bytes)
    THEN [ok |-> FALSE, entries |-> entries]
    ELSE LET raw_type == bytes[offset + 1]
         IN IF raw_type \notin {0, 1, 6, 7}
            THEN parse_entries(bytes, offset + 1, entries_options_length - 1,
                               length, entries)
            ELSE LET r == IF raw_type \in {0, 1}
                          THEN ServiceEntry_deserialize(
                                   ServiceEntry(FIND_SERVICE, 0, 0, 0, 0), bytes, offset)
                          ELSE EventGroupEntry_deserialize(
                                   EventGroupEntry(SUBSCRIBE_EVENTGROUP, 0, 0, 0, 0, 0),
                                   bytes, offset)
                     parsed_length == r.offset - 8
                 IN IF ~r.ok
                    THEN [ok |-> FALSE, entries |-> entries]
                    ELSE parse_entries(bytes, r.offset,
                                       IF r.offset >= 8 /\ parsed_length <= length
                                       THEN length - parsed_length ELSE 0,
                                       length, Append(entries, r.entry))

\* bool SdMessage::deserialize(data) on the object m: the return value and
\* the object afterwards
SdMessage_deserialize(m, bytes) ==
    IF Len(bytes) < 8
    THEN [ok |-> FALSE, message |-> m]
    ELSE LET header == [m EXCEPT !.flags = bytes[1],
                                 !.reserved = (bytes[2] * 256 + bytes[3]) * 256 + bytes[4]]
             length == FromBE32(bytes, 4)
             offset == 8
         IN IF offset + length > Len(bytes)
            THEN [ok |-> FALSE, message |-> header]
            ELSE LET r == parse_entries(bytes, offset, length, length, m.entries)
                 IN [ok |-> r.ok, message |-> [header EXCEPT !.entries = r.entries]]

----------------------------------------------------------------------------
(* Specification SpecSd: an SdMessage is filled with entries and options,  *)
(* serialized, and the bytes are decoded into a fresh SdMessage.           *)

\* no flag, and REBOOT | UNICAST
SdFlags == {0, 192}

\* the FIND_SERVICE entry 0x1234 / 0xFFFF / 0xFF with ttl 3, an offer, a
\* subscription, and an entry with every field zero
SdEntries ==
    {ServiceEntry(FIND_SERVICE, 4660, 65535, 255, 3),
     ServiceEntry(OFFER_SERVICE, 4660, 1, 1, 3),
     EventGroupEntry(SUBSCRIBE_EVENTGROUP, 4660, 1, 1, 3, 1),
     ServiceEntry(FIND_SERVICE, 0, 0, 0, 0)}

\* 10.0.0.1:30509 over UDP and 10.0.0.2:30490 (addresses below 2^31)
SdOptions ==
    {IPv4EndpointOption(10 * 16777216 + 1, 17, 30509),
     IPv4MulticastOption(10 * 16777216 + 2, 30490)}

InitSd ==
    /\ config = TestConfig
    /\ reassembly_buffers = EmptyMap
    /\ now = 0
    /\ call = NoCall
    /\ message = SdMessage
    /\ segments = <<>>
    /\ next_sequence_number = 0
    /\ receiver = "reassembler"
    /\ fed = <<>>
    /\ outputs = <<>>
    /\ statistics = NoStatistics
    /\ IdleManager
    /\ IdleThreads
    /\ wire_data = <<>>
    /\ decoded = SdMessage
    /\ IdleDeserializer
    /\ IdleSessions
    /\ IdleApp

Filling == call.op \in {"init", "set_flags", "add_entry", "add_option"}

\* message.set_flags(flags)
SetFlags(flags) ==
    /\ call.op = "init"
    /\ message' = set_flags(message, flags)
    /\ call' = [NoCall EXCEPT !.op = "set_flags"]
    /\ UNCHANGED <<codecFrame, codecVars>>

\* message.add_entry(std::move(entry))
AddEntry(entry) ==
    /\ Filling
    /\ Len(message.entries) < MaxSdEntries
    /\ message' = add_entry(message, entry)
    /\ call' = [NoCall EXCEPT !.op = "add_entry"]
    /\ UNCHANGED <<codecFrame, codecVars>>

\* message.add_option(std::move(option))
AddOption(option) ==
    /\ Filling
    /\ Len(message.options) < MaxSdOptions
    /\ message' = add_option(message, option)
    /\ call' = [NoCall EXCEPT !.op = "add_option"]
    /\ UNCHANGED <<codecFrame, codecVars>>

\* data = message.serialize()
SdSerialize ==
    /\ Filling
    /\ wire_data' = SdMessage_serialize(message)
    /\ call' = [NoCall EXCEPT !.op = "SdMessage::serialize"]
    /\ UNCHANGED <<codecFrame, message, decoded>>

\* SdMessage decoded; decoded.deserialize(data)
SdDeserialize ==
    /\ call.op = "SdMessage::serialize"
    /\ LET r == SdMessage_deserialize(decoded, wire_data)
       IN /\ decoded' = r.message
          /\ call' = [NoCall EXCEPT !.op = "SdMessage::deserialize", !.ret = r.ok]
    /\ UNCHANGED <<codecFrame, message, wire_data>>

NextSd ==
    \/ \E flags \in SdFlags : SetFlags(flags)
    \/ \E entry \in SdEntries : AddEntry(entry)
    \/ \E option \in SdOptions : AddOption(option)
    \/ SdSerialize
    \/ SdDeserialize

SpecSd == InitSd /\ [][NextSd]_vars

----------------------------------------------------------------------------
(* Properties of the SD codec, under SpecSd                                *)

SameEntry(a, b) ==
    /\ a.type = b.type
    /\ a.service_id = b.service_id
    /\ a.instance_id = b.instance_id
    /\ a.major_version = b.major_version
    /\ a.ttl = b.ttl

\* C19: an SdMessage with any flags, any entries and no options decodes
\* from its serialized bytes with the same flags, the same entries in the
\* same order (type, service_id, instance_id, major_version, ttl) and an
\* empty options list.
C19_SdRoundTrip ==
    (call.op = "SdMessage::deserialize" /\ message.options = <<>>)
    => /\ call.ret
       /\ decoded.flags = message.flags
       /\ Len(decoded.entries) = Len(message.entries)
       /\ \A i \in 1..Len(message.entries) :
             i <= Len(decoded.entries) => SameEntry(decoded.entries[i], message.entries[i])
       /\ decoded.options = <<>>

SameOption(a, b) ==
    /\ a.type = b.type
    /\ a.ipv4_address = b.ipv4_address
    /\ a.port = b.port
    /\ a.protocol = b.protocol

\* C20: decoding reads the options after the entries: the decoded message
\* lists every IPv4 endpoint and IPv4 multicast option of the encoded one.
C20_OptionsDecoded ==
    (call.op = "SdMessage::deserialize" /\ message.options # <<>>)
    => /\ call.ret
       /\ Len(decoded.options) = Len(message.options)
       /\ \A i \in 1..Len(message.options) :
             i <= Len(decoded.options) => SameOption(decoded.options[i], message.options[i])

\* the 16 bytes of wire_data that hold entry i of a message without options
EntrySlot(i) == 8 + 16 * (i - 1)

\* C31: every entry takes 16 bytes of the encoded message, with type at
\* byte 0, service_id at bytes 4-5, instance_id at bytes 6-7, major_version
\* at byte 8 and the ttl as 24 bits at bytes 9-11; the decoder reads the
\* fields at these positions and advances 16 bytes per entry.
C31_EntryIsSixteenBytes ==
    (call.op = "SdMessage::deserialize" /\ message.options = <<>>)
    => /\ Len(wire_data) = 8 + 16 * Len(message.entries)
       /\ \A i \in 1..Len(message.entries) :
             LET e == message.entries[i]
                 at == EntrySlot(i)
             IN EntrySlot(i) + 16 <= Len(wire_data)
                => /\ wire_data[at + 1] = e.type
                   /\ FromBE16(wire_data, at + 4) = e.service_id
                   /\ FromBE16(wire_data, at + 6) = e.instance_id
                   /\ wire_data[at + 9] = e.major_version
                   /\ (wire_data[at + 10] * 256 + wire_data[at + 11]) * 256
                         + wire_data[at + 12] = e.ttl
       /\ Len(decoded.entries) = Len(message.entries)

----------------------------------------------------------------------------
(* Specification SpecSender: the sending side of one TpManager             *)

NextSender ==
    \/ \E m \in ManagerMessages : MgrSegmentMessage(m)
    \/ \E transfer_id \in 1..MaxTransfers : MgrGetNextSegment(transfer_id)
    \/ MgrProcessTimeouts
    \/ Tick

SpecSender == InitManager /\ [][NextSender]_vars

----------------------------------------------------------------------------
(* Properties of the manager's statistics, under SpecSender                *)

Segmented == call'.op = "TpManager::segment_message" /\ call'.result = "SUCCESS"

HandedOut ==
    /\ call'.op = "TpManager::get_next_segment"
    /\ call'.ret
    /\ call'.segment.payload # <<>>

\* C23: messages_segmented grows by one exactly in a segment_message call
\* that returns SUCCESS, segments_sent grows by one exactly when
\* get_next_segment hands out a non-empty segment, and the segment handed out
\* is the next one of the transfer in emission order, none before all the
\* earlier ones and none twice
C23_StatisticsCount ==
    [][/\ statistics'.messages_segmented =
             statistics.messages_segmented + (IF Segmented THEN 1 ELSE 0)
       /\ statistics'.segments_sent = statistics.segments_sent + (IF HandedOut THEN 1 ELSE 0)
       /\ Segmented => call'.transfer_id \in DOMAIN active_transfers' \ DOMAIN active_transfers
       /\ call'.op = "TpManager::get_next_segment" /\ call'.ret =>
             LET transfer == active_transfers[call'.transfer_id]
                 k == transfer.next_segment_to_send
             IN IF k < Len(transfer.segments)
                THEN /\ HandedOut
                     /\ call'.segment = transfer.segments[k + 1]
                     /\ active_transfers'[call'.transfer_id].next_segment_to_send = k + 1
                ELSE ~HandedOut
      ]_vars

\* a transfer of several segments was handed out to its end and the call
\* after the last segment returned the empty segment
C23_Witness ==
    /\ statistics.messages_segmented >= 1
    /\ statistics.segments_sent >= 2
    /\ call.op = "TpManager::get_next_segment"
    /\ call.ret
    /\ call.segment.payload = <<>>

\* transfers with a segment that get_next_segment has not handed out yet
Unfinished(transfers) ==
    {id \in DOMAIN transfers :
        transfers[id].next_segment_to_send < Len(transfers[id].segments)}

\* C36: active_transfers_ never holds more than max_concurrent_transfers
\* transfers, and a transfer whose segments have all been handed out takes
\* no slot: segment_message does not return RESOURCE_EXHAUSTED while fewer
\* than max_concurrent_transfers transfers are unfinished.
C36_SentTransfersFreeSlots ==
    [][/\ Cardinality(DOMAIN active_transfers') <= config.max_concurrent_transfers
       /\ (/\ call'.op = "TpManager::segment_message"
           /\ Cardinality(Unfinished(active_transfers)) < config.max_concurrent_transfers)
          => call'.result # "RESOURCE_EXHAUSTED"]_vars

----------------------------------------------------------------------------
(* serialization/serializer.cpp: Deserializer                              *)

\* std::optional<uint16_t> Deserializer::read_be_uint16()
read_be_uint16(buffer, position) ==
    IF position + 2 > Len(buffer)
    THEN [ok |-> FALSE, value |-> 0, position |-> position]
    ELSE [ok |-> TRUE, value |-> FromBE16(buffer, position), position |-> position + 2]

\* std::optional<uint32_t> Deserializer::read_be_uint32()
read_be_uint32(buffer, position) ==
    IF position + 4 > Len(buffer)
    THEN [ok |-> FALSE, value |-> 0, position |-> position]
    ELSE [ok |-> TRUE, value |-> FromBE32(buffer, position), position |-> position + 4]

\* std::optional<uint64_t> Deserializer::read_be_uint64(); the value is kept
\* as its high and low 32-bit words
read_be_uint64(buffer, position) ==
    IF position + 8 > Len(buffer)
    THEN [ok |-> FALSE, value |-> 0, position |-> position]
    ELSE [ok |-> TRUE,
          value |-> <<FromBE32(buffer, position), FromBE32(buffer, position + 4)>>,
          position |-> position + 8]

deserialize_bool(buffer, position) ==
    IF position + 1 > Len(buffer)
    THEN [ok |-> FALSE, value |-> 0, position |-> position]
    ELSE [ok |-> TRUE, value |-> buffer[position + 1] # 0, position |-> position + 1]

deserialize_uint8(buffer, position) ==
    IF position + 1 > Len(buffer)
    THEN [ok |-> FALSE, value |-> 0, position |-> position]
    ELSE [ok |-> TRUE, value |-> buffer[position + 1], position |-> position + 1]

deserialize_uint16(buffer, position) == read_be_uint16(buffer, position)

deserialize_uint32(buffer, position) == read_be_uint32(buffer, position)

deserialize_uint64(buffer, position) == read_be_uint64(buffer, position)

\* void Deserializer::skip(size_t bytes): the new position
skip(buffer, position, bytes) == Min(position + bytes, Len(buffer))

\* void Deserializer::align_to(size_t alignment): the new position
align_to(buffer, position, alignment) ==
    LET padding == (alignment - (position % alignment)) % alignment
    IN skip(buffer, position, padding)

\* bool Deserializer::set_position(size_t pos)
set_position(buffer, position, pos) ==
    LET valid == pos <= Len(buffer)
    IN [valid |-> valid, position |-> IF valid THEN pos ELSE position]

\* DeserializationResult<std::string> Deserializer::deserialize_string()
deserialize_string(buffer, position) ==
    LET length_result == deserialize_uint32(buffer, position)
    IN IF ~length_result.ok
       THEN [ok |-> FALSE, value |-> <<>>, position |-> length_result.position]
       ELSE LET length == length_result.value
                at == length_result.position
            IN IF at + length > Len(buffer)
               THEN [ok |-> FALSE, value |-> <<>>, position |-> at]
               ELSE [ok |-> TRUE, value |-> SubSeq(buffer, at + 1, at + length),
                     position |-> align_to(buffer, at + length, 4)]

\* the element types deserialize_array<T> is used with here
ElementTypes == {"bool", "uint8_t", "uint16_t", "uint32_t", "uint64_t", "std::string"}

\* the if constexpr chain of deserialize_array<T>
deserialize_element(T, buffer, position) ==
    CASE T = "bool" -> deserialize_bool(buffer, position)
      [] T = "uint8_t" -> deserialize_uint8(buffer, position)
      [] T = "uint16_t" -> deserialize_uint16(buffer, position)
      [] T = "uint32_t" -> deserialize_uint32(buffer, position)
      [] T = "uint64_t" -> deserialize_uint64(buffer, position)
      [] T = "std::string" -> deserialize_string(buffer, position)

\* the for loop of deserialize_array<T>, from element i on
RECURSIVE array_elements(_, _, _, _, _, _)
array_elements(T, buffer, position, i, length, result) ==
    IF i >= length
    THEN [ok |-> TRUE, value |-> result, position |-> position]
    ELSE LET element_result == deserialize_element(T, buffer, position)
         IN IF ~element_result.ok
            THEN [ok |-> FALSE, value |-> <<>>, position |-> element_result.position]
            ELSE array_elements(T, buffer, element_result.position, i + 1, length,
                                Append(result, element_result.value))

\* DeserializationResult<std::vector<T>> Deserializer::deserialize_array<T>(length)
deserialize_array(T, buffer, position, length) ==
    array_elements(T, buffer, position, 0, length, <<>>)

----------------------------------------------------------------------------
(* SpecDeserializer: one Deserializer over a buffer, read and navigated    *)

DeserializerBytes == {0, 1}

RECURSIVE BuffersOfLen(_)
BuffersOfLen(n) ==
    IF n = 0 THEN {<<>>}
    ELSE {Append(b, x) : b \in BuffersOfLen(n - 1), x \in DeserializerBytes}

DeserializerBuffers == UNION {BuffersOfLen(n) : n \in 0..MaxBufferLen}

\* Deserializer::Deserializer(data)
InitDeserializer ==
    /\ config = TestConfig
    /\ reassembly_buffers = EmptyMap
    /\ now = 0
    /\ call = NoCall
    /\ message = NoMessage
    /\ segments = <<>>
    /\ next_sequence_number = 0
    /\ receiver = "reassembler"
    /\ fed = <<>>
    /\ outputs = <<>>
    /\ statistics = NoStatistics
    /\ IdleManager
    /\ IdleThreads
    /\ IdleCodec
    /\ IdleSessions
    /\ IdleApp
    /\ buffer_ \in DeserializerBuffers
    /\ position_ = 0

serFrame == <<config, reassembly_buffers, now, txVars, statistics, mgrVars, raceVars,
              codecVars, sessVars, appVars, buffer_>>

Returned(op, r) ==
    [NoCall EXCEPT !.op = op, !.ret = r.ok,
                   !.result = IF r.ok THEN "SUCCESS" ELSE "MALFORMED_MESSAGE"]

\* deserializer.deserialize_bool()
DeserializeBool ==
    LET r == deserialize_bool(buffer_, position_)
    IN /\ position_' = r.position
       /\ call' = Returned("deserialize_bool", r)
       /\ UNCHANGED serFrame

\* deserializer.deserialize_uint8()
DeserializeUint8 ==
    LET r == deserialize_uint8(buffer_, position_)
    IN /\ position_' = r.position
       /\ call' = Returned("deserialize_uint8", r)
       /\ UNCHANGED serFrame

\* deserializer.deserialize_uint16()
DeserializeUint16 ==
    LET r == deserialize_uint16(buffer_, position_)
    IN /\ position_' = r.position
       /\ call' = Returned("deserialize_uint16", r)
       /\ UNCHANGED serFrame

\* deserializer.deserialize_uint32()
DeserializeUint32 ==
    LET r == deserialize_uint32(buffer_, position_)
    IN /\ position_' = r.position
       /\ call' = Returned("deserialize_uint32", r)
       /\ UNCHANGED serFrame

\* deserializer.deserialize_uint64()
DeserializeUint64 ==
    LET r == deserialize_uint64(buffer_, position_)
    IN /\ position_' = r.position
       /\ call' = Returned("deserialize_uint64", r)
       /\ UNCHANGED serFrame

\* deserializer.deserialize_string()
DeserializeString ==
    LET r == deserialize_string(buffer_, position_)
    IN /\ position_' = r.position
       /\ call' = Returned("deserialize_string", r)
       /\ UNCHANGED serFrame

\* deserializer.deserialize_array<T>(length)
DeserializeArray(T, length) ==
    LET r == deserialize_array(T, buffer_, position_, length)
    IN /\ position_' = r.position
       /\ call' = [Returned("deserialize_array", r) EXCEPT !.arg = length]
       /\ UNCHANGED serFrame

\* deserializer.set_position(pos)
SetPosition(pos) ==
    LET r == set_position(buffer_, position_, pos)
    IN /\ position_' = r.position
       /\ call' = [NoCall EXCEPT !.op = "set_position", !.ret = r.valid, !.arg = pos]
       /\ UNCHANGED serFrame

\* deserializer.skip(bytes)
Skip(bytes) ==
    /\ position_' = skip(buffer_, position_, bytes)
    /\ call' = [NoCall EXCEPT !.op = "skip", !.arg = bytes]
    /\ UNCHANGED serFrame

\* deserializer.align_to(alignment), alignment > 0
AlignTo(alignment) ==
    /\ position_' = align_to(buffer_, position_, alignment)
    /\ call' = [NoCall EXCEPT !.op = "align_to", !.arg = alignment]
    /\ UNCHANGED serFrame

\* deserializer.reset()
Reset ==
    /\ position_' = 0
    /\ call' = [NoCall EXCEPT !.op = "reset"]
    /\ UNCHANGED serFrame

NextDeserializer ==
    \/ DeserializeBool
    \/ DeserializeUint8
    \/ DeserializeUint16
    \/ DeserializeUint32
    \/ DeserializeUint64
    \/ DeserializeString
    \/ \E T \in ElementTypes, length \in 0..MaxArrayLength : DeserializeArray(T, length)
    \/ \E pos \in 0..(MaxBufferLen + 1) : SetPosition(pos)
    \/ \E bytes \in 0..(MaxBufferLen + 1) : Skip(bytes)
    \/ \E alignment \in {1, 2, 4, 8} : AlignTo(alignment)
    \/ Reset

SpecDeserializer == InitDeserializer /\ [][NextDeserializer]_vars

ReadOps ==
    {"deserialize_bool", "deserialize_uint8", "deserialize_uint16", "deserialize_uint32",
     "deserialize_uint64", "deserialize_string", "deserialize_array"}

\* C21: a read that fails leaves position() where it was; position() never
\* passes the end of the buffer; set_position(p) succeeds exactly when p is
\* at most the buffer length, and skip and align_to stop at the buffer length
C21_FailedReadConsumesNothing ==
    [][/\ (call'.op \in ReadOps /\ ~call'.ret) => position_' = position_
       /\ position_' <= Len(buffer_')
       /\ call'.op = "set_position" =>
             /\ call'.ret <=> call'.arg <= Len(buffer_)
             /\ position_' = IF call'.ret THEN call'.arg ELSE position_
       /\ call'.op = "skip" => position_' = Min(position_ + call'.arg, Len(buffer_))
       /\ call'.op = "align_to" =>
             \/ position_' = Len(buffer_)
             \/ position_' % call'.arg = 0 /\ position_' - position_ < call'.arg
      ]_vars

----------------------------------------------------------------------------
(* core/session_manager.cpp: SessionManager                                *)

\* Session::Session(sid, cid)
Session(sid, cid) == [session_id |-> sid, client_id |-> cid, state |-> "ACTIVE"]

\* candidate++ on a uint16_t, 0 skipped
next_candidate(candidate) ==
    IF U16(candidate + 1) = 0 THEN 1 ELSE U16(candidate + 1)

\* the while loop of get_next_session_id
RECURSIVE first_free_id(_, _)
first_free_id(sessions, candidate) ==
    IF candidate \in DOMAIN sessions
    THEN first_free_id(sessions, next_candidate(candidate))
    ELSE candidate

\* get_next_session_id that hands out the counter without looking at sessions_
get_next_session_id_counter_only(sessions, next_id) ==
    [candidate |-> next_id, next_session_id |-> next_candidate(next_id)]

\* uint16_t SessionManager::get_next_session_id()
get_next_session_id(sessions, next_id) ==
    LET candidate == first_free_id(sessions, next_id)
    IN [candidate |-> candidate, next_session_id |-> next_candidate(candidate)]

\* void SessionManager::remove_session(session_id), the map it leaves
remove_session(sessions, session_id) ==
    IF session_id \in DOMAIN sessions THEN Erase(sessions, session_id) ELSE sessions

----------------------------------------------------------------------------
(* SpecSessions: threads creating and removing sessions of one manager     *)

SessionThreads == {1, 2}

\* the client id a thread passes to create_session
ClientOf(t) == 4096 + t

\* the counter after many sessions were created: before, at and after its wrap
SessionCounters == {1, 65534, 65535}

\* ids of sessions created on an earlier lap of the counter and still alive
LongLived == {65535, 1, 2}

Caller(pc, session_id, entry, held) ==
    [pc |-> pc, session_id |-> session_id, entry |-> entry, held |-> held]

RECURSIVE SeqOfSet(_)
SeqOfSet(S) ==
    IF S = {} THEN <<>>
    ELSE LET x == CHOOSE y \in S : \A z \in S : y <= z
         IN <<x>> \o SeqOfSet(S \ {x})

\* a manager some of whose sessions, created by thread 1, are still alive
InitSessions ==
    /\ config = TestConfig
    /\ reassembly_buffers = EmptyMap
    /\ now = 0
    /\ call = NoCall
    /\ message = NoMessage
    /\ segments = <<>>
    /\ next_sequence_number = 0
    /\ receiver = "reassembler"
    /\ fed = <<>>
    /\ outputs = <<>>
    /\ statistics = NoStatistics
    /\ IdleManager
    /\ IdleThreads
    /\ IdleCodec
    /\ IdleDeserializer
    /\ IdleApp
    /\ sessions_mutex_ = 0
    /\ next_session_id_ \in SessionCounters
    /\ \E alive \in SUBSET LongLived :
          /\ sessions_ = [id \in alive |-> Session(id, ClientOf(1))]
          /\ callers = [t \in SessionThreads |->
                           Caller("idle", 0, 0, IF t = 1 THEN SeqOfSet(alive) ELSE <<>>)]

sessFrame == <<config, reassembly_buffers, now, txVars, statistics, mgrVars, raceVars,
               codecVars, serVars, appVars>>

\* create_session(client_id): std::scoped_lock lock(sessions_mutex_)
CreateLock(t) ==
    /\ callers[t].pc = "idle"
    /\ sessions_mutex_ = 0
    /\ Cardinality(DOMAIN sessions_) < MaxSessions
    /\ next_session_id_ >= 65534 \/ next_session_id_ <= MaxSessionCounter
    /\ sessions_mutex_' = t
    /\ callers' = [callers EXCEPT ![t].pc = "locked"]
    /\ UNCHANGED <<sessions_, next_session_id_, call, sessFrame>>

\* create_session: uint16_t session_id = get_next_session_id()
CreateGetNextSessionId(t) ==
    /\ callers[t].pc = "locked"
    /\ LET r == get_next_session_id(sessions_, next_session_id_)
       IN /\ next_session_id_' = r.next_session_id
          /\ callers' = [callers EXCEPT ![t].pc = "got", ![t].session_id = r.candidate,
                                        ![t].entry = next_session_id_]
    /\ UNCHANGED <<sessions_, sessions_mutex_, call, sessFrame>>

\* create_session: sessions_[session_id] = session
CreateInsert(t) ==
    /\ callers[t].pc = "got"
    /\ sessions_' = Put(sessions_, callers[t].session_id,
                        Session(callers[t].session_id, ClientOf(t)))
    /\ callers' = [callers EXCEPT ![t].pc = "inserted"]
    /\ UNCHANGED <<sessions_mutex_, next_session_id_, call, sessFrame>>

\* create_session: return session_id, the lock released
CreateReturn(t) ==
    /\ callers[t].pc = "inserted"
    /\ sessions_mutex_' = 0
    /\ callers' = [callers EXCEPT ![t].pc = "idle",
                                  ![t].held = Append(@, callers[t].session_id)]
    /\ call' = [NoCall EXCEPT !.op = "create_session", !.arg = callers[t].session_id,
                              !.message_id = callers[t].entry]
    /\ UNCHANGED <<sessions_, next_session_id_, sessFrame>>

\* remove_session(session_id) by thread t, under the lock
RemoveSession(t, session_id) ==
    /\ callers[t].pc = "idle"
    /\ sessions_mutex_ = 0
    /\ sessions_' = remove_session(sessions_, session_id)
    /\ callers' = [u \in SessionThreads |->
                      [callers[u] EXCEPT !.held = SelectSeq(@, LAMBDA id : id # session_id)]]
    /\ call' = [NoCall EXCEPT !.op = "remove_session", !.arg = session_id]
    /\ UNCHANGED <<sessions_mutex_, next_session_id_, sessFrame>>

NextSessions ==
    \/ \E t \in SessionThreads : CreateLock(t)
    \/ \E t \in SessionThreads : CreateGetNextSessionId(t)
    \/ \E t \in SessionThreads : CreateInsert(t)
    \/ \E t \in SessionThreads : CreateReturn(t)
    \/ \E t \in SessionThreads, session_id \in DOMAIN sessions_ : RemoveSession(t, session_id)

SpecSessions == InitSessions /\ [][NextSessions]_vars

\* the ids create_session returned whose sessions were not removed since
Holdings == {<<t, i>> : t \in SessionThreads, i \in 1..MaxSessions}

HeldAt(h) == callers[h[1]].held[h[2]]

Holds(h) == h[2] <= Len(callers[h[1]].held)

\* C22: create_session never returns 0, and the ids it returned whose
\* sessions are still alive are pairwise distinct and each names a live
\* session, across the wrap of the 16-bit counter and with two threads calling
C22_SessionIdsUnique ==
    /\ \A h \in Holdings : Holds(h) => HeldAt(h) # 0 /\ HeldAt(h) \in DOMAIN sessions_
    /\ \A g, h \in Holdings : Holds(g) /\ Holds(h) /\ g # h => HeldAt(g) # HeldAt(h)
    /\ call.op = "create_session" => call.arg # 0

\* both threads hold sessions, and the last create_session wrapped the
\* counter past 0 and stepped over a live id
C22_Witness ==
    /\ call.op = "create_session"
    /\ call.arg < call.message_id
    /\ call.arg # 1
    /\ \A t \in SessionThreads : callers[t].held # <<>>

----------------------------------------------------------------------------
(* sd/sd_client.cpp: SdClientImpl, the receiving side                      *)

\* the ServiceInstance handle_service_offer builds from an entry
ServiceInstance(service_id, instance_id, major_version, ttl_seconds) ==
    [service_id |-> service_id, instance_id |-> instance_id,
     major_version |-> major_version, minor_version |-> 0, ttl_seconds |-> ttl_seconds]

\* the predicate of the find_if / remove_if lambdas
same_instance(svc, entry) ==
    svc.service_id = entry.service_id /\ svc.instance_id = entry.instance_id

\* pending_finds_ after the loop that erases the finds of one service
erase_finds(finds, service_id) ==
    [id \in {i \in DOMAIN finds : finds[i] # service_id} |-> finds[id]]

\* handle_service_offer that pushes the instance back without looking for
\* an entry of the same service and instance
handle_service_offer_appends(client, entry) ==
    [available_services |-> Append(client.available_services,
                                   ServiceInstance(entry.service_id, entry.instance_id,
                                                   entry.major_version, entry.ttl)),
     pending_finds |-> erase_finds(client.pending_finds, entry.service_id)]

\* handle_service_offer: push_back when find_if reaches end(), else assign
\* to the first match; then the pending finds of the service are erased
handle_service_offer(client, entry) ==
    LET instance == ServiceInstance(entry.service_id, entry.instance_id,
                                    entry.major_version, entry.ttl)
        services == client.available_services
        matches == {i \in 1..Len(services) : same_instance(services[i], entry)}
        it == CHOOSE i \in matches : \A j \in matches : i <= j
    IN [available_services |-> IF matches = {} THEN Append(services, instance)
                               ELSE [services EXCEPT ![it] = instance],
        pending_finds |-> erase_finds(client.pending_finds, entry.service_id)]

\* handle_service_stop_offer: remove_if and erase
handle_service_stop_offer(client, entry) ==
    LET keep(svc) == ~same_instance(svc, entry)
    IN [client EXCEPT !.available_services = SelectSeq(@, keep)]

\* process_sd_entries: the for loop with its switch on the entry type
RECURSIVE process_sd_entries(_, _)
process_sd_entries(client, entries) ==
    IF entries = <<>> THEN client
    ELSE LET entry == Head(entries)
             next == IF entry.type # OFFER_SERVICE THEN client
                     ELSE IF entry.ttl = 0 THEN handle_service_stop_offer(client, entry)
                     ELSE handle_service_offer(client, entry)
         IN process_sd_entries(next, Tail(entries))

\* on_message_received: the entries it hands to process_sd_entries, none when
\* the message is no SD message or its payload does not decode
received_entries(msg) ==
    LET r == SdMessage_deserialize(SdMessage, msg.payload)
    IN IF msg.service_id # 65535 \/ ~r.ok THEN <<>> ELSE r.message.entries

----------------------------------------------------------------------------
(* Specification SpecSdClient: one SdClientImpl whose transport delivers   *)
(* datagrams to on_message_received while the application calls            *)
(* find_service.                                                           *)

\* an entry laid out as ServiceEntry::deserialize reads it: type, two
\* indices, two skipped bytes, service id, instance id, major version and
\* the ttl in four bytes
ReadableEntry(e) ==
    <<e.type, e.index1, e.index2, 0, 0>> \o BE16(e.service_id) \o BE16(e.instance_id)
    \o <<e.major_version>> \o BE32(e.ttl)

\* an SD payload of such entries; two bytes that are no entry type close
\* it, as the decoder asks for 16 bytes before it reads an entry of 14
ReadablePayload(entries) ==
    LET body == Concat([i \in 1..Len(entries) |-> ReadableEntry(entries[i])]) \o <<255, 255>>
    IN <<0, 0, 0, 0>> \o BE32(Len(body)) \o body

\* two offers of instance (1, 1) that differ in version and ttl, its
\* stop-offer, and offers of (1, 2) and (2, 1)
OfferEntries ==
    {ServiceEntry(OFFER_SERVICE, 1, 1, 1, 3),
     ServiceEntry(OFFER_SERVICE, 1, 1, 2, 5),
     ServiceEntry(OFFER_SERVICE, 1, 1, 1, 0),
     ServiceEntry(OFFER_SERVICE, 1, 2, 1, 3),
     ServiceEntry(OFFER_SERVICE, 2, 1, 1, 3)}

EntryLists ==
    UNION {[1..n -> OfferEntries] : n \in 1..MaxSdEntries}

\* SD datagrams in the layout the decoder reads and as SdMessage::serialize
\* writes them, a truncated payload, a FIND_SERVICE entry before an offer,
\* and a message of another service
SdDatagrams ==
    {[service_id |-> 65535, payload |-> ReadablePayload(l)] : l \in EntryLists}
    \cup {[service_id |-> 65535,
           payload |-> SdMessage_serialize([SdMessage EXCEPT !.entries = l])] :
             l \in {<<e>> : e \in OfferEntries}}
    \cup {[service_id |-> 65535, payload |-> <<0, 0, 0>>],
          [service_id |-> 65535,
           payload |-> ReadablePayload(<<ServiceEntry(FIND_SERVICE, 1, 1, 1, 0),
                                         ServiceEntry(OFFER_SERVICE, 1, 1, 1, 3)>>)],
          [service_id |-> 4660,
           payload |-> ReadablePayload(<<ServiceEntry(OFFER_SERVICE, 1, 1, 1, 3)>>)]}

\* the ttl of the last OFFER_SERVICE entry of each instance
RECURSIVE LatestOffer(_, _)
LatestOffer(latest, entries) ==
    IF entries = <<>> THEN latest
    ELSE LET e == Head(entries)
             k == <<e.service_id, e.instance_id>>
             next == IF e.type # OFFER_SERVICE THEN latest
                     ELSE [x \in DOMAIN latest \cup {k} |-> IF x = k THEN e.ttl ELSE latest[x]]
         IN LatestOffer(next, Tail(entries))

InitSdClient ==
    /\ config = TestConfig
    /\ reassembly_buffers = EmptyMap
    /\ now = 0
    /\ call = NoCall
    /\ message = NoMessage
    /\ segments = <<>>
    /\ next_sequence_number = 0
    /\ receiver = "reassembler"
    /\ fed = <<>>
    /\ outputs = <<>>
    /\ statistics = NoStatistics
    /\ IdleManager
    /\ IdleThreads
    /\ IdleCodec
    /\ IdleDeserializer
    /\ IdleSessions
    /\ IdleApp

sdcFrame == <<config, reassembly_buffers, now, txVars, statistics, mgrVars, raceVars,
              codecVars, serVars, sessVars>>

\* void on_message_received(message, sender), called by the transport's
\* receive thread: the decoded entries go to process_sd_entries
OnSdMessageReceived(msg) ==
    LET entries == received_entries(msg)
        r == process_sd_entries([available_services |-> available_services_,
                                 pending_finds |-> pending_finds_], entries)
    IN /\ available_services_' = r.available_services
       /\ pending_finds_' = r.pending_finds
       /\ latest_offer' = LatestOffer(latest_offer, entries)
       /\ call' = [NoCall EXCEPT !.op = "on_message_received", !.arg = Len(entries)]
       /\ UNCHANGED <<sdcFrame, next_request_id_, segmenting, rpcVars, evVars, tcpVars>>

\* find_service(service_id, callback, timeout) on a running client whose
\* transport sends the request
FindService(service_id) ==
    /\ next_request_id_ <= MaxFinds
    /\ pending_finds_' = [id \in DOMAIN pending_finds_ \cup {next_request_id_} |->
                             IF id = next_request_id_ THEN service_id
                             ELSE pending_finds_[id]]
    /\ next_request_id_' = next_request_id_ + 1
    /\ call' = [NoCall EXCEPT !.op = "find_service", !.arg = service_id]
    /\ UNCHANGED <<sdcFrame, available_services_, latest_offer, segmenting, rpcVars,
                   evVars, tcpVars>>

NextSdClient ==
    \/ \E msg \in SdDatagrams : OnSdMessageReceived(msg)
    \/ \E service_id \in {1, 2} : FindService(service_id)

SpecSdClient == InitSdClient /\ [][NextSdClient]_vars

----------------------------------------------------------------------------
(* Properties of the SD client's service list, under SpecSdClient          *)

Listed(k) ==
    {i \in 1..Len(available_services_) :
        <<available_services_[i].service_id, available_services_[i].instance_id>> = k}

\* C32: the list of available services holds at most one entry per
\* (service_id, instance_id); an instance is listed exactly when the last
\* OFFER_SERVICE entry processed for it had ttl > 0, and the listed entry
\* carries the version and ttl of an offer with that ttl.
C32_ListTracksLatestOffer ==
    /\ \A i, j \in 1..Len(available_services_) :
          (/\ available_services_[i].service_id = available_services_[j].service_id
           /\ available_services_[i].instance_id = available_services_[j].instance_id)
          => i = j
    /\ \A i \in 1..Len(available_services_) :
          LET k == <<available_services_[i].service_id, available_services_[i].instance_id>>
          IN /\ k \in DOMAIN latest_offer
             /\ latest_offer[k] > 0
             /\ available_services_[i].ttl_seconds = latest_offer[k]
    /\ \A k \in DOMAIN latest_offer : latest_offer[k] > 0 => Listed(k) # {}

\* instance (1, 1) was offered, replaced by a later offer and stopped, and
\* instance (1, 2) is listed
C32_Witness ==
    /\ <<1, 1>> \in DOMAIN latest_offer
    /\ latest_offer[<<1, 1>>] = 0
    /\ Listed(<<1, 1>>) = {}
    /\ Listed(<<1, 2>>) # {}
    /\ call.op = "on_message_received"

----------------------------------------------------------------------------
(* Specification SpecSegmentLoop: one segment_message call on a segmenter  *)
(* with the default TpConfig, followed statement by statement through the  *)
(* loop of create_multi_segments.  The payload is known by its size; of    *)
(* the output vector the type of the segment pushed last is kept.          *)

DefaultMaxSegmentSize == 1400
DefaultMaxMessageSize == 1000000
Uint16Values == 65536

DefaultConfig ==
    [max_segment_size |-> DefaultMaxSegmentSize,
     max_message_size |-> DefaultMaxMessageSize,
     reassembly_timeout |-> ReassemblyTimeout,
     max_concurrent_transfers |-> MaxConcurrentTransfers]

\* payload sizes: one over the limit, one segment, two segments, the last
\* size whose offsets fit uint16_t, the first that does not, and the limit
LoopPayloadSizes ==
    {DefaultMaxMessageSize + 1, DefaultMaxSegmentSize, DefaultMaxSegmentSize + 1,
     Uint16Values - 1, Uint16Values, DefaultMaxMessageSize}

InitSegmentLoop ==
    /\ config = DefaultConfig
    /\ reassembly_buffers = EmptyMap
    /\ now = 0
    /\ call = NoCall
    /\ message = NoMessage
    /\ segments = <<>>
    /\ next_sequence_number = 0
    /\ receiver = "reassembler"
    /\ fed = <<>>
    /\ outputs = <<>>
    /\ statistics = NoStatistics
    /\ IdleManager
    /\ IdleThreads
    /\ IdleCodec
    /\ IdleDeserializer
    /\ IdleSessions
    /\ IdleApp

loopFrame == <<config, reassembly_buffers, now, message, segments, receiver, fed, outputs,
               statistics, mgrVars, raceVars, codecVars, serVars, sessVars, sdcVars,
               rpcVars, evVars, tcpVars>>

\* segment_message up to the call of create_multi_segments
SegmentMessageEnter(size) ==
    /\ segmenting.pc = "idle"
    /\ call.op = "init"
    /\ call' = [NoCall EXCEPT !.op = "segment_message", !.arg = size,
                              !.result = IF size > config.max_message_size
                                         THEN "MESSAGE_TOO_LARGE" ELSE "SUCCESS"]
    /\ IF size > config.max_message_size
       THEN /\ segmenting' = [segmenting EXCEPT !.pc = "returned"]
            /\ UNCHANGED next_sequence_number
       ELSE IF size <= config.max_segment_size
       THEN /\ segmenting' = [segmenting EXCEPT !.pc = "returned", !.total_length = size,
                                                !.pushed = SINGLE_MESSAGE]
            /\ next_sequence_number' = U8(next_sequence_number + 1)
       ELSE /\ segmenting' = [segmenting EXCEPT !.pc = "first", !.total_length = size]
            /\ next_sequence_number' = U8(next_sequence_number + 1)
    /\ UNCHANGED loopFrame

\* the block that pushes the FIRST_SEGMENT: payload_offset = first_payload_size
PushFirstSegment ==
    /\ segmenting.pc = "first"
    /\ LET first_payload_size ==
               IF config.max_segment_size >= HeaderSize
               THEN Min(config.max_segment_size - HeaderSize, segmenting.total_length)
               ELSE segmenting.total_length
       IN segmenting' = [segmenting EXCEPT !.pc = "loop",
                                           !.payload_offset = U16(first_payload_size),
                                           !.pushed = FIRST_SEGMENT]
    /\ UNCHANGED <<loopFrame, call, next_sequence_number>>

\* one pass through the body of while (payload_offset < total_length)
LoopIteration ==
    /\ segmenting.pc = "loop"
    /\ segmenting.payload_offset < segmenting.total_length
    /\ LET remaining_bytes == segmenting.total_length - segmenting.payload_offset
           payload_size == U16(Min(config.max_segment_size, remaining_bytes))
       IN segmenting' = [segmenting EXCEPT
                            !.payload_offset = U16(@ + payload_size),
                            !.pushed = IF remaining_bytes <= config.max_segment_size
                                       THEN LAST_SEGMENT ELSE CONSECUTIVE_SEGMENT]
    /\ UNCHANGED <<loopFrame, call, next_sequence_number>>

\* the loop condition fails: next_sequence_number_ is set and SUCCESS returned
LoopExit ==
    /\ segmenting.pc = "loop"
    /\ ~(segmenting.payload_offset < segmenting.total_length)
    /\ segmenting' = [segmenting EXCEPT !.pc = "returned"]
    /\ next_sequence_number' = (next_sequence_number + 1) % 256
    /\ UNCHANGED <<loopFrame, call>>

NextSegmentLoop ==
    \/ \E size \in LoopPayloadSizes : SegmentMessageEnter(size)
    \/ PushFirstSegment
    \/ LoopIteration
    \/ LoopExit

\* the thread inside segment_message keeps running
SpecSegmentLoop ==
    InitSegmentLoop /\ [][NextSegmentLoop]_vars /\ WF_vars(NextSegmentLoop)

----------------------------------------------------------------------------
(* Properties of the segmentation loop, under SpecSegmentLoop              *)

\* C34: segment_message returns for every payload size up to
\* max_message_size, sizes above 65,535 included.
C34_SegmentationTerminates ==
    <>(segmenting.pc = "returned")

----------------------------------------------------------------------------
(* rpc/rpc_client.cpp: RpcClientImpl                                       *)

\* PendingCall{service_id, method_id, session_id, start_time, timeout,
\* callback}: the fields on_message_received compares
PendingCall(service_id, method_id, session_id) ==
    [service_id |-> service_id, method_id |-> method_id, session_id |-> session_id]

\* the callback of the call with this handle runs once more
Ran(runs, handle) == [runs EXCEPT ![handle].times = @ + 1]

\* the condition of the if inside the for loop of on_message_received
is_response_to(entry, msg) ==
    /\ entry.session_id = msg.session_id
    /\ entry.service_id = msg.service_id
    /\ entry.method_id = msg.method_id

\* the pending calls the for loop can stop at: none for a message that is
\* no response
answered_calls(pending, msg) ==
    IF ~msg.is_response THEN {}
    ELSE {handle \in DOMAIN pending : is_response_to(pending[handle], msg)}

\* on_message_received that runs the callback and leaves the entry in
\* pending_calls_
answer_call_keeps_entry(pending, runs, handle) ==
    [pending_calls |-> pending, callback_runs |-> Ran(runs, handle)]

\* on_message_received at the matching entry: the callback runs, the entry
\* is erased and the loop is left
answer_call(pending, runs, handle) ==
    [pending_calls |-> Erase(pending, handle), callback_runs |-> Ran(runs, handle)]

\* bool cancel_call(handle), under pending_calls_mutex_
cancel_call(pending, runs, handle) ==
    IF handle \notin DOMAIN pending
    THEN [ret |-> FALSE, pending_calls |-> pending, callback_runs |-> runs]
    ELSE [ret |-> TRUE, pending_calls |-> Erase(pending, handle),
          callback_runs |-> Ran(runs, handle)]

\* the block of shutdown() under pending_calls_mutex_: every callback runs
\* with INTERNAL_ERROR, then pending_calls_.clear()
cancel_all_pending(pending, runs) ==
    [pending_calls |-> EmptyMap,
     callback_runs |-> [h \in DOMAIN runs |->
                           IF h \in DOMAIN pending
                           THEN [runs[h] EXCEPT !.times = @ + 1] ELSE runs[h]]]

----------------------------------------------------------------------------
(* Specification SpecRpcClient: application threads call initialize,       *)
(* call_method_async, cancel_call and shutdown on one RpcClientImpl while  *)
(* the transport's receive thread delivers messages.  A block that runs    *)
(* under pending_calls_mutex_ or sessions_mutex_ is one step.              *)

RpcThreads == {1, 2}
RpcClientId == 4096
RpcMethods == {1, 2}

\* the method the application calls; RpcMethods has one more, for responses
\* that match a call's session and not its method
CalledMethod == 1

RpcThread(pc, method_id, session_id, handle) ==
    [pc |-> pc, method_id |-> method_id, session_id |-> session_id, handle |-> handle]

\* messages of service 1: a response for either method and each session id
\* the client hands out, and a request
RpcMessages ==
    {[is_response |-> TRUE, service_id |-> 1, method_id |-> m, session_id |-> sid] :
        m \in RpcMethods, sid \in 1..MaxCalls}
    \cup {[is_response |-> FALSE, service_id |-> 1, method_id |-> CalledMethod,
           session_id |-> 1]}

InitRpcClient ==
    /\ config = TestConfig
    /\ reassembly_buffers = EmptyMap
    /\ now = 0
    /\ call = NoCall
    /\ message = NoMessage
    /\ segments = <<>>
    /\ next_sequence_number = 0
    /\ receiver = "reassembler"
    /\ fed = <<>>
    /\ outputs = <<>>
    /\ statistics = NoStatistics
    /\ IdleManager
    /\ IdleThreads
    /\ IdleCodec
    /\ IdleDeserializer
    /\ IdleSessions
    /\ IdleSdClient
    /\ segmenting = NotSegmenting
    /\ IdleEventPublisher
    /\ IdleTcp
    /\ rpc_running_ = FALSE
    /\ pending_calls_ = EmptyMap
    /\ next_call_handle_ = 1
    /\ callback_runs = EmptyMap
    /\ rpc_threads = [t \in RpcThreads |-> RpcThread("idle", 0, 0, 0)]
    /\ sessions_size = 0

rpcFrame == <<config, reassembly_buffers, now, txVars, statistics, mgrVars, raceVars,
              codecVars, serVars, sessions_mutex_, callers, sdcVars, segmenting,
              sessions_size, evVars, tcpVars>>

\* bool initialize(), the transport starting
RpcInitialize(t) ==
    /\ rpc_threads[t].pc = "idle"
    /\ rpc_running_' = TRUE
    /\ call' = [NoCall EXCEPT !.op = "RpcClient::initialize"]
    /\ UNCHANGED <<rpcFrame, sessions_, next_session_id_, pending_calls_, next_call_handle_,
                   callback_runs, rpc_threads>>

\* call_method_async: if (!running_) return 0
AsyncEnter(t) ==
    /\ rpc_threads[t].pc = "idle"
    /\ next_call_handle_ <= MaxCalls
    /\ IF rpc_running_
       THEN /\ rpc_threads' = [rpc_threads EXCEPT ![t] = RpcThread("create", CalledMethod, 0, 0)]
            /\ UNCHANGED call
       ELSE /\ call' = [NoCall EXCEPT !.op = "call_method_async", !.ret = FALSE]
            /\ UNCHANGED rpc_threads
    /\ UNCHANGED <<rpcFrame, sessions_, next_session_id_, rpc_running_, pending_calls_,
                   next_call_handle_, callback_runs>>

\* call_method_async: session_id = session_manager_->create_session(client_id_)
AsyncCreateSession(t) ==
    /\ rpc_threads[t].pc = "create"
    /\ LET r == get_next_session_id(sessions_, next_session_id_)
       IN /\ sessions_' = Put(sessions_, r.candidate, Session(r.candidate, RpcClientId))
          /\ next_session_id_' = r.next_session_id
          /\ rpc_threads' = [rpc_threads EXCEPT ![t].pc = "insert",
                                                ![t].session_id = r.candidate]
    /\ UNCHANGED <<rpcFrame, call, rpc_running_, pending_calls_, next_call_handle_,
                   callback_runs>>

\* call_method_async: handle = next_call_handle_++; pending_calls_[handle] = call_info
AsyncInsert(t) ==
    /\ rpc_threads[t].pc = "insert"
    /\ pending_calls_' = Put(pending_calls_, next_call_handle_,
                             PendingCall(1, rpc_threads[t].method_id,
                                         rpc_threads[t].session_id))
    /\ callback_runs' = Put(callback_runs, next_call_handle_,
                            [session_id |-> rpc_threads[t].session_id, times |-> 0])
    /\ next_call_handle_' = next_call_handle_ + 1
    /\ rpc_threads' = [rpc_threads EXCEPT ![t].pc = "send", ![t].handle = next_call_handle_]
    /\ UNCHANGED <<rpcFrame, call, sessions_, next_session_id_, rpc_running_>>

\* call_method_async: send_message succeeds and handle is returned, or it
\* fails, the entry is erased and 0 is returned
AsyncSend(t, sent) ==
    /\ rpc_threads[t].pc = "send"
    /\ pending_calls_' = IF sent THEN pending_calls_
                         ELSE Erase(pending_calls_, rpc_threads[t].handle)
    /\ rpc_threads' = [rpc_threads EXCEPT ![t].pc = "idle"]
    /\ call' = [NoCall EXCEPT !.op = "call_method_async", !.ret = sent]
    /\ UNCHANGED <<rpcFrame, sessions_, next_session_id_, rpc_running_, next_call_handle_,
                   callback_runs>>

\* bool cancel_call(handle)
CancelCall(t, handle) ==
    /\ rpc_threads[t].pc = "idle"
    /\ LET r == cancel_call(pending_calls_, callback_runs, handle)
       IN /\ pending_calls_' = r.pending_calls
          /\ callback_runs' = r.callback_runs
          /\ call' = [NoCall EXCEPT !.op = "cancel_call", !.ret = r.ret]
    /\ UNCHANGED <<rpcFrame, sessions_, next_session_id_, rpc_running_, next_call_handle_,
                   rpc_threads>>

\* shutdown: if (!running_) return
ShutdownEnter(t) ==
    /\ rpc_threads[t].pc = "idle"
    /\ IF rpc_running_
       THEN /\ rpc_threads' = [rpc_threads EXCEPT ![t].pc = "stopping"]
            /\ UNCHANGED call
       ELSE /\ call' = [NoCall EXCEPT !.op = "RpcClient::shutdown", !.ret = FALSE]
            /\ UNCHANGED rpc_threads
    /\ UNCHANGED <<rpcFrame, sessions_, next_session_id_, rpc_running_, pending_calls_,
                   next_call_handle_, callback_runs>>

\* shutdown: running_ = false
ShutdownStore(t) ==
    /\ rpc_threads[t].pc = "stopping"
    /\ rpc_running_' = FALSE
    /\ rpc_threads' = [rpc_threads EXCEPT ![t].pc = "cancelling"]
    /\ UNCHANGED <<rpcFrame, call, sessions_, next_session_id_, pending_calls_,
                   next_call_handle_, callback_runs>>

\* shutdown: the block that cancels all pending calls, then transport_->stop()
ShutdownCancelAll(t) ==
    /\ rpc_threads[t].pc = "cancelling"
    /\ LET r == cancel_all_pending(pending_calls_, callback_runs)
       IN /\ pending_calls_' = r.pending_calls
          /\ callback_runs' = r.callback_runs
    /\ rpc_threads' = [rpc_threads EXCEPT ![t].pc = "idle"]
    /\ call' = [NoCall EXCEPT !.op = "RpcClient::shutdown"]
    /\ UNCHANGED <<rpcFrame, sessions_, next_session_id_, rpc_running_, next_call_handle_>>

\* on_message_received(message, sender) on the receive thread; the
\* unordered_map is walked in an order the program does not fix
OnRpcMessageReceived(msg) ==
    /\ LET found == answered_calls(pending_calls_, msg)
       IN IF found = {}
          THEN UNCHANGED <<pending_calls_, callback_runs>>
          ELSE \E handle \in found :
                  LET r == answer_call(pending_calls_, callback_runs, handle)
                  IN /\ pending_calls_' = r.pending_calls
                     /\ callback_runs' = r.callback_runs
    /\ call' = [NoCall EXCEPT !.op = "RpcClient::on_message_received",
                              !.ret = msg.is_response, !.arg = msg.session_id]
    /\ UNCHANGED <<rpcFrame, sessions_, next_session_id_, rpc_running_, next_call_handle_,
                   rpc_threads>>

NextRpcClient ==
    \/ \E t \in RpcThreads : RpcInitialize(t)
    \/ \E t \in RpcThreads : AsyncEnter(t)
    \/ \E t \in RpcThreads : AsyncCreateSession(t)
    \/ \E t \in RpcThreads : AsyncInsert(t)
    \/ \E t \in RpcThreads, sent \in BOOLEAN : AsyncSend(t, sent)
    \/ \E t \in RpcThreads, handle \in 1..MaxCalls : CancelCall(t, handle)
    \/ \E t \in RpcThreads : ShutdownEnter(t)
    \/ \E t \in RpcThreads : ShutdownStore(t)
    \/ \E t \in RpcThreads : ShutdownCancelAll(t)
    \/ \E msg \in RpcMessages : OnRpcMessageReceived(msg)

SpecRpcClient == InitRpcClient /\ [][NextRpcClient]_vars

----------------------------------------------------------------------------
(* Properties of the RPC client's callbacks, under SpecRpcClient           *)

\* C38: the callback of a call runs at most once over the matching
\* response, cancel_call and shutdown, and not again once the entry of the
\* call has left pending_calls_.
C38_CallbackAtMostOnce ==
    [][/\ \A h \in DOMAIN callback_runs' : callback_runs'[h].times <= 1
       /\ \A h \in DOMAIN callback_runs :
             h \notin DOMAIN pending_calls_ => callback_runs'[h] = callback_runs[h]
      ]_vars

\* the response to a call arrived again after its callback had run, and
\* the call's entry is gone
C38_Witness ==
    /\ call.op = "RpcClient::on_message_received"
    /\ call.ret
    /\ \E h \in DOMAIN callback_runs :
          /\ callback_runs[h].times = 1
          /\ callback_runs[h].session_id = call.arg
          /\ h \notin DOMAIN pending_calls_
    /\ \A h \in DOMAIN callback_runs : callback_runs[h].times = 1
    /\ next_call_handle_ > MaxCalls

----------------------------------------------------------------------------
(* Specification SpecRpcSessions: one application thread calls             *)
(* call_method_async on a fresh RpcClientImpl again and again, each call    *)
(* after the response to the one before.  RpcClientImpl calls neither       *)
(* remove_session nor cleanup_expired_sessions, and get_next_session_id     *)
(* hands out 1, 2, 3, ...: sessions_ holds the ids 1..sessions_size, and    *)
(* the specification keeps that number in place of the map.  The while loop *)
(* of get_next_session_id runs one iteration per step.                      *)

SessionIds == 65535           \* the non-zero values of uint16_t
CallsBefore == SessionIds - 2 \* calls issued and answered before the behaviour starts

\* the RpcClient after n calls have been issued and answered: n sessions,
\* no pending call
AfterCalls(n) ==
    /\ rpc_running_ = (n > 0)
    /\ call = IF n > 0 THEN [NoCall EXCEPT !.op = "RpcClient::initialize"] ELSE NoCall
    /\ pending_calls_ = EmptyMap
    /\ next_call_handle_ = n + 1
    /\ next_session_id_ = n + 1
    /\ sessions_size = n
    /\ rpc_threads = [t \in RpcThreads |-> RpcThread("idle", 0, 0, 0)]
    /\ callback_runs = EmptyMap

\* a fresh RpcClient, or one that CallsBefore calls have gone through (a
\* state the fresh one reaches by NextRpcSessions)
InitRpcSessions ==
    /\ config = TestConfig
    /\ reassembly_buffers = EmptyMap
    /\ now = 0
    /\ message = NoMessage
    /\ segments = <<>>
    /\ next_sequence_number = 0
    /\ receiver = "reassembler"
    /\ fed = <<>>
    /\ outputs = <<>>
    /\ statistics = NoStatistics
    /\ IdleManager
    /\ IdleThreads
    /\ IdleCodec
    /\ IdleDeserializer
    /\ sessions_ = EmptyMap
    /\ sessions_mutex_ = 0
    /\ callers = EmptyMap
    /\ IdleSdClient
    /\ segmenting = NotSegmenting
    /\ IdleEventPublisher
    /\ IdleTcp
    /\ \E n \in {0, CallsBefore} : AfterCalls(n)

rpcSessionsFrame == <<config, reassembly_buffers, now, txVars, statistics, mgrVars, raceVars,
                      codecVars, serVars, sessions_, callers, sdcVars, segmenting,
                      callback_runs, evVars, tcpVars>>

\* call_method_async up to create_session taking sessions_mutex_ and
\* get_next_session_id reading candidate = next_session_id_
CreateSessionEnter(t) ==
    /\ rpc_threads[t].pc = "idle"
    /\ rpc_running_
    /\ pending_calls_ = EmptyMap
    /\ sessions_mutex_ = 0
    /\ sessions_mutex_' = t
    /\ rpc_threads' = [rpc_threads EXCEPT ![t] = RpcThread("searching", CalledMethod,
                                                          next_session_id_, 0)]
    /\ UNCHANGED <<rpcSessionsFrame, call, next_session_id_, rpc_running_, pending_calls_,
                   next_call_handle_, sessions_size>>

\* one iteration of while (sessions_.find(candidate) != sessions_.end())
SessionLoopIteration(t) ==
    /\ rpc_threads[t].pc = "searching"
    /\ rpc_threads[t].session_id \in 1..sessions_size
    /\ rpc_threads' = [rpc_threads EXCEPT
                          ![t].session_id = next_candidate(rpc_threads[t].session_id)]
    /\ UNCHANGED <<rpcSessionsFrame, call, sessions_mutex_, next_session_id_, rpc_running_,
                   pending_calls_, next_call_handle_, sessions_size>>

\* the loop is left: next_session_id_ is set, create_session stores the
\* session and releases sessions_mutex_
SessionLoopExit(t) ==
    /\ rpc_threads[t].pc = "searching"
    /\ rpc_threads[t].session_id \notin 1..sessions_size
    /\ next_session_id_' = next_candidate(rpc_threads[t].session_id)
    /\ sessions_size' = sessions_size + 1
    /\ sessions_mutex_' = 0
    /\ rpc_threads' = [rpc_threads EXCEPT ![t].pc = "insert"]
    /\ UNCHANGED <<rpcSessionsFrame, call, rpc_running_, pending_calls_, next_call_handle_>>

\* the rest of call_method_async: the call is stored in pending_calls_ and
\* the request is sent
SessionCallSend(t) ==
    /\ rpc_threads[t].pc = "insert"
    /\ pending_calls_' = Put(pending_calls_, next_call_handle_,
                             PendingCall(1, rpc_threads[t].method_id,
                                         rpc_threads[t].session_id))
    /\ next_call_handle_' = next_call_handle_ + 1
    /\ rpc_threads' = [rpc_threads EXCEPT ![t].pc = "idle", ![t].handle = next_call_handle_]
    /\ UNCHANGED <<rpcSessionsFrame, call, sessions_mutex_, next_session_id_, rpc_running_,
                   sessions_size>>

\* on_message_received with the response to the pending call: the entry
\* leaves pending_calls_, the session stays in sessions_
SessionCallAnswered ==
    /\ \E handle \in DOMAIN pending_calls_ :
          pending_calls_' =
              answer_call(pending_calls_,
                          [h \in DOMAIN pending_calls_ |->
                              [session_id |-> pending_calls_[h].session_id, times |-> 0]],
                          handle).pending_calls
    /\ UNCHANGED <<rpcSessionsFrame, call, sessions_mutex_, next_session_id_, rpc_running_,
                   next_call_handle_, rpc_threads, sessions_size>>

NextRpcSessions ==
    \/ RpcInitialize(1) /\ ~rpc_running_
    \/ CreateSessionEnter(1)
    \/ SessionLoopIteration(1)
    \/ SessionLoopExit(1)
    \/ SessionCallSend(1)
    \/ SessionCallAnswered

SpecRpcSessions == InitRpcSessions /\ [][NextRpcSessions]_vars

\* C37: create_session always returns: whenever a thread is in the id
\* search loop of get_next_session_id, whatever number of calls the
\* RpcClient has issued and completed before, a non-zero session id is
\* free, which the loop (it walks the ids in a circle) then finds.
C37_FreeSessionIdExists ==
    rpc_threads[1].pc = "searching" => sessions_size < SessionIds

----------------------------------------------------------------------------
(* events/event_publisher.cpp: EventPublisherImpl.  Application threads    *)
(* call initialize, register_event, handle_subscription, publish_event and *)
(* shutdown; the thread started by start_publish_timer calls               *)
(* publish_cyclic_events.  events_mutex_ and subscriptions_mutex_ hold the *)
(* id of the thread that has locked them, 0 when free.  A thread that      *)
(* waits for a mutex stays at its place until the mutex is free.           *)

EvAppThreads == {1, 2}
TimerThread == 3
EvThreads == EvAppThreads \cup {TimerThread}

EvThread(pc, event_id, remaining) ==
    [pc |-> pc, event_id |-> event_id, remaining |-> remaining]

\* EventConfig: a periodic event and an event sent on change, of one
\* eventgroup
EventConfigs ==
    {[event_id |-> 1, notification_type |-> "PERIODIC", cycle_time |-> 100,
      eventgroup_id |-> 1],
     [event_id |-> 2, notification_type |-> "ON_CHANGE", cycle_time |-> 0,
      eventgroup_id |-> 1]}

InitEventPublisher ==
    /\ config = TestConfig
    /\ reassembly_buffers = EmptyMap
    /\ now = 0
    /\ call = NoCall
    /\ message = NoMessage
    /\ segments = <<>>
    /\ next_sequence_number = 0
    /\ receiver = "reassembler"
    /\ fed = <<>>
    /\ outputs = <<>>
    /\ statistics = NoStatistics
    /\ IdleManager
    /\ IdleThreads
    /\ IdleCodec
    /\ IdleDeserializer
    /\ IdleSessions
    /\ IdleSdClient
    /\ segmenting = NotSegmenting
    /\ IdleRpcClient
    /\ IdleTcp
    /\ event_publisher = NoEventPublisher
    /\ ev_threads = [t \in EvThreads |->
                        EvThread(IF t = TimerThread THEN "not_started" ELSE "idle", 0, {})]

evFrame == <<reVars, txVars, statistics, mgrVars, raceVars, codecVars, serVars, sessVars,
             sdcVars, segmenting, rpcVars, tcpVars>>

\* the place a thread is at after publish_event has returned
AfterPublish(t) == IF t = TimerThread THEN "cyclic_loop" ELSE "idle"

\* bool initialize(): running_ = true; start_publish_timer() starts the
\* thread unless publish_timer_thread_ is joinable
EvInitialize(t) ==
    /\ ~event_publisher.terminated
    /\ t \in EvAppThreads
    /\ ev_threads[t].pc = "idle"
    /\ IF event_publisher.running_
       THEN UNCHANGED <<event_publisher, ev_threads>>
       ELSE /\ event_publisher' = [event_publisher EXCEPT !.running_ = TRUE,
                                                            !.joinable = TRUE]
            /\ ev_threads' = IF event_publisher.joinable THEN ev_threads
                             ELSE [ev_threads EXCEPT ![TimerThread].pc = "loop"]
    /\ UNCHANGED evFrame

\* bool register_event(config)
EvRegisterEvent(t, cfg) ==
    /\ ~event_publisher.terminated
    /\ t \in EvAppThreads
    /\ ev_threads[t].pc = "idle"
    /\ event_publisher.events_mutex_ = 0
    /\ event_publisher' =
          IF cfg.event_id \in DOMAIN event_publisher.registered_events_
          THEN event_publisher
          ELSE [event_publisher EXCEPT
                   !.registered_events_ = Put(@, cfg.event_id, cfg)]
    /\ UNCHANGED <<evFrame, ev_threads>>

\* bool handle_subscription(eventgroup_id, client_id, filters)
EvHandleSubscription(t, eventgroup_id) ==
    /\ ~event_publisher.terminated
    /\ t \in EvAppThreads
    /\ ev_threads[t].pc = "idle"
    /\ event_publisher.subscriptions_mutex_ = 0
    /\ event_publisher' = [event_publisher EXCEPT !.subscriptions_ = @ \cup {eventgroup_id}]
    /\ UNCHANGED <<evFrame, ev_threads>>

\* publish_event called by an application thread: if (!running_) return false
PublishEnter(t, event_id) ==
    /\ ~event_publisher.terminated
    /\ t \in EvAppThreads
    /\ ev_threads[t].pc = "idle"
    /\ event_publisher.next_session_id_ <= MaxPublishes
    /\ ev_threads' = IF event_publisher.running_
                     THEN [ev_threads EXCEPT ![t] = EvThread("pe_lock_events", event_id, {})]
                     ELSE ev_threads
    /\ UNCHANGED <<evFrame, event_publisher>>

\* publish_event: events_mutex_ is locked, the event is looked up and the
\* notification takes next_session_id_++
PublishLockEvents(t) ==
    /\ ~event_publisher.terminated
    /\ ev_threads[t].pc = "pe_lock_events"
    /\ event_publisher.events_mutex_ = 0
    /\ IF ev_threads[t].event_id \in DOMAIN event_publisher.registered_events_
       THEN /\ event_publisher' =
                  [event_publisher EXCEPT !.events_mutex_ = t,
                                          !.next_session_id_ = U16(@ + 1)]
            /\ ev_threads' = [ev_threads EXCEPT ![t].pc = "pe_lock_subs"]
       ELSE /\ ev_threads' = [ev_threads EXCEPT ![t].pc = AfterPublish(t)]
            /\ UNCHANGED event_publisher
    /\ UNCHANGED evFrame

\* publish_event: subscriptions_mutex_ is locked, the notification is sent
\* to the subscribed clients, both mutexes are unlocked at the return
PublishLockSubscriptions(t) ==
    /\ ~event_publisher.terminated
    /\ ev_threads[t].pc = "pe_lock_subs"
    /\ event_publisher.subscriptions_mutex_ = 0
    /\ event_publisher' = [event_publisher EXCEPT !.events_mutex_ = 0]
    /\ ev_threads' = [ev_threads EXCEPT ![t].pc = AfterPublish(t)]
    /\ UNCHANGED evFrame

\* std::mutex::lock by the thread that owns the mutex is undefined: the
\* thread waits for ever (it stays at "pe_lock_events"), or lock throws
\* std::system_error, which leaves the thread function and ends the program
RelockThrows(t) ==
    /\ ~event_publisher.terminated
    /\ ev_threads[t].pc = "pe_lock_events"
    /\ event_publisher.events_mutex_ = t
    /\ event_publisher' = [event_publisher EXCEPT !.terminated = TRUE]
    /\ UNCHANGED <<evFrame, ev_threads>>

\* the timer thread: while (running_) { sleep_for(100ms); ...
TimerLoop ==
    /\ ~event_publisher.terminated
    /\ ev_threads[TimerThread].pc = "loop"
    /\ ev_threads' = [ev_threads EXCEPT ![TimerThread].pc =
                         IF event_publisher.running_ THEN "woken" ELSE "exited"]
    /\ UNCHANGED <<evFrame, event_publisher>>

\* the timer thread: if (!running_) break; publish_cyclic_events();
TimerWoken ==
    /\ ~event_publisher.terminated
    /\ ev_threads[TimerThread].pc = "woken"
    /\ ev_threads' = [ev_threads EXCEPT ![TimerThread].pc =
                         IF event_publisher.running_ THEN "cyclic_lock" ELSE "exited"]
    /\ UNCHANGED <<evFrame, event_publisher>>

\* publish_cyclic_events: std::scoped_lock events_lock(events_mutex_), the
\* for loop begins
CyclicLockEvents ==
    /\ ~event_publisher.terminated
    /\ ev_threads[TimerThread].pc = "cyclic_lock"
    /\ event_publisher.events_mutex_ = 0
    /\ event_publisher' = [event_publisher EXCEPT !.events_mutex_ = TimerThread]
    /\ ev_threads' = [ev_threads EXCEPT
                         ![TimerThread] = EvThread("cyclic_loop", 0,
                                                   DOMAIN event_publisher.registered_events_)]
    /\ UNCHANGED evFrame

\* publish_cyclic_events: one event of the for loop; due tells whether
\* cycle_time has passed since last_publish_times_[event_id].  A due
\* periodic event is published: publish_event is entered with events_mutex_
\* held
CyclicVisit(event_id, due) ==
    /\ ~event_publisher.terminated
    /\ ev_threads[TimerThread].pc = "cyclic_loop"
    /\ event_id \in ev_threads[TimerThread].remaining
    /\ LET cfg == event_publisher.registered_events_[event_id]
           periodic == cfg.notification_type = "PERIODIC" /\ cfg.cycle_time > 0
       IN /\ periodic \/ ~due
          /\ event_publisher' =
                IF periodic
                THEN [event_publisher EXCEPT !.last_publish_times_ = @ \cup {event_id}]
                ELSE event_publisher
          /\ ev_threads' =
                [ev_threads EXCEPT
                    ![TimerThread] =
                        EvThread(IF periodic /\ due /\ event_publisher.running_
                                 THEN "pe_lock_events" ELSE "cyclic_loop",
                                 event_id, @.remaining \ {event_id})]
    /\ UNCHANGED evFrame

\* publish_cyclic_events returns: events_mutex_ is unlocked
CyclicReturn ==
    /\ ~event_publisher.terminated
    /\ ev_threads[TimerThread].pc = "cyclic_loop"
    /\ ev_threads[TimerThread].remaining = {}
    /\ event_publisher' = [event_publisher EXCEPT !.events_mutex_ = 0]
    /\ ev_threads' = [ev_threads EXCEPT ![TimerThread].pc = "loop"]
    /\ UNCHANGED evFrame

\* shutdown: if (!running_) return; running_ = false
EvShutdownEnter(t) ==
    /\ ~event_publisher.terminated
    /\ t \in EvAppThreads
    /\ ev_threads[t].pc = "idle"
    /\ IF event_publisher.running_
       THEN /\ event_publisher' = [event_publisher EXCEPT !.running_ = FALSE]
            /\ ev_threads' = [ev_threads EXCEPT ![t].pc = "sd_join"]
       ELSE UNCHANGED <<event_publisher, ev_threads>>
    /\ UNCHANGED evFrame

\* shutdown: stop_publish_timer() joins the timer thread
StopPublishTimer(t) ==
    /\ ~event_publisher.terminated
    /\ ev_threads[t].pc = "sd_join"
    /\ IF event_publisher.joinable
       THEN /\ ev_threads[TimerThread].pc = "exited"
            /\ event_publisher' = [event_publisher EXCEPT !.joinable = FALSE]
            /\ ev_threads' = [ev_threads EXCEPT ![t].pc = "sd_lock_subs",
                                                ![TimerThread].pc = "not_started"]
       ELSE /\ ev_threads' = [ev_threads EXCEPT ![t].pc = "sd_lock_subs"]
            /\ UNCHANGED event_publisher
    /\ UNCHANGED evFrame

\* shutdown: subscriptions_mutex_ is locked, subscriptions_.clear()
EvShutdownLockSubscriptions(t) ==
    /\ ~event_publisher.terminated
    /\ ev_threads[t].pc = "sd_lock_subs"
    /\ event_publisher.subscriptions_mutex_ = 0
    /\ event_publisher' = [event_publisher EXCEPT !.subscriptions_mutex_ = t,
                                                  !.subscriptions_ = {}]
    /\ ev_threads' = [ev_threads EXCEPT ![t].pc = "sd_lock_events"]
    /\ UNCHANGED evFrame

\* shutdown: events_mutex_ is locked, registered_events_.clear(), the
\* transport is stopped and both mutexes are unlocked
EvShutdownLockEvents(t) ==
    /\ ~event_publisher.terminated
    /\ ev_threads[t].pc = "sd_lock_events"
    /\ event_publisher.events_mutex_ = 0
    /\ event_publisher' = [event_publisher EXCEPT !.subscriptions_mutex_ = 0,
                                                  !.registered_events_ = EmptyMap]
    /\ ev_threads' = [ev_threads EXCEPT ![t].pc = "idle"]
    /\ UNCHANGED evFrame

NextEventPublisher ==
    \/ \E t \in EvAppThreads : EvInitialize(t)
    \/ \E t \in EvAppThreads, cfg \in EventConfigs : EvRegisterEvent(t, cfg)
    \/ \E t \in EvAppThreads : EvHandleSubscription(t, 1)
    \/ \E t \in EvAppThreads, event_id \in 1..2 : PublishEnter(t, event_id)
    \/ \E t \in EvThreads : PublishLockEvents(t)
    \/ \E t \in EvThreads : PublishLockSubscriptions(t)
    \/ \E t \in EvThreads : RelockThrows(t)
    \/ TimerLoop
    \/ TimerWoken
    \/ CyclicLockEvents
    \/ \E event_id \in 1..2, due \in BOOLEAN : CyclicVisit(event_id, due)
    \/ CyclicReturn
    \/ \E t \in EvAppThreads : EvShutdownEnter(t)
    \/ \E t \in EvAppThreads : StopPublishTimer(t)
    \/ \E t \in EvAppThreads : EvShutdownLockSubscriptions(t)
    \/ \E t \in EvAppThreads : EvShutdownLockEvents(t)

SpecEventPublisher == InitEventPublisher /\ [][NextEventPublisher]_vars

\* the thread t waits for: the owner of the mutex it is locking, the timer
\* thread it is joining; 0 when t is not waiting
WaitsFor(t) ==
    IF t \notin EvThreads THEN 0
    ELSE IF ev_threads[t].pc \in {"pe_lock_events", "sd_lock_events", "cyclic_lock"}
    THEN event_publisher.events_mutex_
    ELSE IF ev_threads[t].pc \in {"pe_lock_subs", "sd_lock_subs"}
    THEN event_publisher.subscriptions_mutex_
    ELSE IF /\ ev_threads[t].pc = "sd_join"
            /\ event_publisher.joinable
            /\ ev_threads[TimerThread].pc # "exited"
    THEN TimerThread
    ELSE 0

\* t waits for a thread that waits for a thread that waits: among three
\* threads the chain closes, and none of them moves again
WaitsForEver(t) == WaitsFor(WaitsFor(WaitsFor(t))) # 0

\* C39: EventPublisher never deadlocks: no thread inside
\* publish_cyclic_events, publish_event or shutdown waits in a closed chain
\* of waiting threads, the timer thread publishing a due periodic event
\* included.
C39_NoThreadWaitsForEver ==
    \A t \in EvThreads : ~WaitsForEver(t)

----------------------------------------------------------------------------
(* transport/tcp_transport.cpp: TcpTransport, the receiving side           *)

SOMEIP_HEADER_SIZE == 16
MAX_MESSAGE_SIZE == 65535
RecvBufferSize == 4096        \* uint8_t buffer[4096] of receive_data

\* TcpTransportConfig as default-constructed: max_receive_buffer
TcpConfig == [max_receive_buffer |-> 65536]

\* the while loop that looks for a non-zero message id after an invalid
\* length: the position it stops at, 0 when it finds none
RECURSIVE find_valid_header(_, _)
find_valid_header(buffer, search_start) ==
    IF search_start + SOMEIP_HEADER_SIZE > Len(buffer) THEN 0
    ELSE IF FromBE32(buffer, search_start) # 0 THEN search_start
    ELSE find_valid_header(buffer, search_start + 1)

\* bool parse_message_from_buffer(buffer, message): the return value, the
\* message and the buffer afterwards
parse_message_from_buffer(cfg, buffer) ==
    IF Len(buffer) > cfg.max_receive_buffer
    THEN [ok |-> FALSE, message |-> NoMessage, buffer |-> <<>>]
    ELSE IF Len(buffer) < SOMEIP_HEADER_SIZE
    THEN [ok |-> FALSE, message |-> NoMessage, buffer |-> buffer]
    ELSE LET length_from_client_id == FromBE32(buffer, 4)
         IN IF length_from_client_id < 8 \/ length_from_client_id > MAX_MESSAGE_SIZE
            THEN LET found == find_valid_header(buffer, SOMEIP_HEADER_SIZE)
                 IN [ok |-> FALSE, message |-> NoMessage,
                     buffer |-> IF found = 0 THEN <<>>
                                ELSE SubSeq(buffer, found + 1, Len(buffer))]
            ELSE LET total_message_size == 8 + length_from_client_id
                 IN IF Len(buffer) < total_message_size
                    THEN [ok |-> FALSE, message |-> NoMessage, buffer |-> buffer]
                    ELSE LET parsed == deserialize(NoMessage,
                                                   SubSeq(buffer, 1, total_message_size))
                         IN [ok |-> parsed.ok, message |-> parsed.message,
                             buffer |-> SubSeq(buffer, total_message_size + 1, Len(buffer))]

\* receive_data(socket_fd, data) on an empty data: recv() returns the
\* first received bytes of the stream
receive_data(cfg, stream, received) ==
    [data |-> SubSeq(stream, 1, received), stream |-> SubSeq(stream, received + 1, Len(stream))]

\* the most recv() is asked for
max_chunk_size(cfg) == Min(RecvBufferSize, cfg.max_receive_buffer)

----------------------------------------------------------------------------
(* Specification SpecTcp: one side writes well-formed messages with        *)
(* send_message, the receive thread of the other side runs receive_loop;   *)
(* recv() returns any number of the bytes that have arrived.               *)

\* well-formed requests that differ in the payload
TcpMessages == {Message(1, 2, 3, 4, 0, 0, Bytes(5, n)) : n \in 0..1}

InitTcp ==
    /\ config = TestConfig
    /\ reassembly_buffers = EmptyMap
    /\ now = 0
    /\ call = NoCall
    /\ message = NoMessage
    /\ segments = <<>>
    /\ next_sequence_number = 0
    /\ receiver = "reassembler"
    /\ fed = <<>>
    /\ outputs = <<>>
    /\ statistics = NoStatistics
    /\ IdleManager
    /\ IdleThreads
    /\ IdleCodec
    /\ IdleDeserializer
    /\ IdleSessions
    /\ IdleApp

tcpFrame == <<reVars, txVars, statistics, mgrVars, raceVars, codecVars, serVars, sessVars,
              sdcVars, segmenting, rpcVars, evVars>>

\* Result TcpTransport::send_message(message, endpoint) on the connected
\* sender: send_data writes all of message.serialize()
TcpSendMessage(m) ==
    /\ Len(tcp_written) < MaxTcpMessages
    /\ tcp_written' = Append(tcp_written, m)
    /\ tcp_stream' = tcp_stream \o serialize(m)
    /\ UNCHANGED <<tcpFrame, message_queue_>>

\* one pass of the while loop of receive_loop on the connected receiver in
\* which recv() returns received bytes: buffer is a new vector, filled by
\* receive_data and parsed once; a parsed message is pushed to
\* message_queue_ and handed to the listener
ReceiveLoop(received) ==
    /\ received \in 1..Min(max_chunk_size(TcpConfig), Len(tcp_stream))
    /\ LET got == receive_data(TcpConfig, tcp_stream, received)
           parsed == parse_message_from_buffer(TcpConfig, got.data)
       IN /\ tcp_stream' = got.stream
          /\ message_queue_' = IF parsed.ok THEN Append(message_queue_, parsed.message)
                               ELSE message_queue_
    /\ UNCHANGED <<tcpFrame, tcp_written>>

NextTcp ==
    \/ \E m \in TcpMessages : TcpSendMessage(m)
    \/ \E received \in 1..(MaxTcpMessages * (SOMEIP_HEADER_SIZE + 1)) : ReceiveLoop(received)

SpecTcp == InitTcp /\ [][NextTcp]_vars

\* C40: TCP framing preserves messages: when every byte written has been
\* received, the messages delivered are the messages written, each once and
\* in order, however recv() cut the stream.
C40_WrittenMessagesDelivered ==
    tcp_stream = <<>> => message_queue_ = tcp_written

====
